---- MODULE Spec2Model ----
(***************************************************************************)
(* Model of the result merger of qserv's czar:                             *)
(*   core/modules/rproc/InfileMerger.cc                                    *)
(* One InfileMerger session (facade + Mgr + load actions) driven by        *)
(* concurrent caller threads that invoke merge() and finalize().           *)
(***************************************************************************)
EXTENDS Integers, Sequences, FiniteSets, TLC

\* ------------------------------------------------------------------ bounds
\* total number of merge()/finalize() calls made on the session
MaxCalls == 2
\* longest payload (result envelope) carried by a frame
MaxPayload == 1

\* caller threads delivering frames into the one session
Threads == {"t1", "t2"}

\* values of one byte of the wire; wide enough for the header length, the
\* payload size and the digest of every frame built below
Byte == 0..(MaxPayload + 1)

\* ------------------------------------------------------- wire format model
RECURSIVE SumSeq(_)
SumSeq(s) == IF s = <<>> THEN 0 ELSE s[1] + SumSeq(Tail(s))

\* util::StringHash::getMd5(cursor, resultSize): a content hash of the raw
\* payload bytes (many-to-one, as a hash is)
getMd5(bytes) == SumSeq(bytes) % (MaxPayload + 2)

\* serialized ProtoHeader: the fields size() and md5()
EncodeHeader(size, md5) == <<size, md5>>

\* ProtoImporter<ProtoHeader>::setMsgFrom succeeds iff the bytes are the
\* serialization of some header
HeaderParses(bytes) == \E s \in Byte, m \in Byte : bytes = EncodeHeader(s, m)

\* ProtoImporter<proto::Result>::setMsgFrom succeeds iff the bytes are a
\* serialized Result: non-empty, first byte a valid (non-zero) field tag
ResultParses(bytes) == Len(bytes) >= 1 /\ bytes[1] # 0

\* payloads a worker can produce: one of every length up to MaxPayload
\* (their sizes and digests differ)
GoodPayloads == {[i \in 1..n |-> 1] : n \in 1..MaxPayload}

\* the payload whose frame is corrupted in one of three ways below
SomePayload == <<1>>

\* the frame a worker writes for a payload: length byte, header, payload
Frame(p) == <<Len(EncodeHeader(Len(p), getMd5(p)))>> \o EncodeHeader(Len(p), getMd5(p)) \o p

WellFormedFrames == {Frame(p) : p \in GoodPayloads}

\* the frame of p with its digest field tampered
BadDigestFrame(p) ==
    <<Len(EncodeHeader(0, 0))>> \o EncodeHeader(Len(p), (getMd5(p) + 1) % (MaxPayload + 2)) \o p

\* the frame of p whose payload bytes do not parse as a Result (digest intact)
BadPayloadFrame(p) ==
    LET q == [i \in 1..Len(p) |-> 0]
    IN  <<Len(EncodeHeader(0, 0))>> \o EncodeHeader(Len(q), getMd5(q)) \o q

\* the frame of p with a length byte under which the header does not parse
BadHeaderFrame(p) == <<Len(EncodeHeader(0, 0)) - 1>> \o Tail(Frame(p))

Prefixes(s) == {SubSeq(s, 1, n) : n \in 0..(Len(s) - 1)}

\* strict prefixes of well-formed frames: what a caller holds while a frame
\* is still arriving
ShortBuffers == UNION {Prefixes(f) : f \in WellFormedFrames}

\* the buffers callers hand to merge()
Buffers ==
    WellFormedFrames
    \cup ShortBuffers
    \cup {BadDigestFrame(SomePayload), BadPayloadFrame(SomePayload),
          BadHeaderFrame(SomePayload)}

\* ------------------------------------------------------------------- state
VARIABLES
    needsFixup,       \* _config.mFixup.needsFixup
    targetTable,      \* _config.targetTable
    mergeTable,       \* _mergeTable
    errorCode,        \* _error.errorCode
    errorStatus,      \* _error.status
    isFinished,       \* _isFinished
    needHeader,       \* _needHeader
    needCreateTable,  \* _needCreateTable
    msgsOwned,        \* _msgs.get() != 0 (the facade still owns its Msgs)
    msgs,             \* *_msgs: protoHeader.size(), protoHeader.md5(), result
    sqlConnected,     \* _sqlConn.get() != 0
    mysqlConnected,   \* _mgr->_mysqlConn.connected()
    numInflight,      \* _mgr->_numInflight
    mutex,            \* holder of each boost::mutex, or "free"
    sqlLog,           \* statements that reached the SQL engine, in order
    actions,          \* Mgr::Action objects constructed, in order
    crashed,          \* the process died (segfault / failed assert)
    pc, op, buf, ret, \* per thread: position, current call, argument, result
    phSize, payload,  \* per thread: locals of _fetchHeader
    dispatched,       \* per thread: the current call constructed an action
    onlyFrames,       \* every call so far was merge() of one well-formed frame
    callsMade         \* calls made so far

session == <<needsFixup, targetTable, mergeTable, errorCode, errorStatus, isFinished, needHeader,
             needCreateTable, msgsOwned, msgs, sqlConnected, mysqlConnected,
             numInflight>>
locals == <<pc, op, buf, ret, phSize, payload, dispatched>>
vars == <<session, mutex, sqlLog, actions, crashed, locals, onlyFrames, callsMade>>

NoRet == [kind |-> "none", val |-> 0]
OffT(n) == [kind |-> "off_t", val |-> n]
Bool(b) == [kind |-> "bool", val |-> IF b THEN 1 ELSE 0]
Thrown == [kind |-> "throw", val |-> 0]


Idle == "idle"

\* _config.targetTable as the caller configured it
ConfiguredTargets == {"", "target"}

\* the name _fixupTargetName generates for an empty target:
\* <targetDb>.result_<getTimeStampId()>
GeneratedTarget == "qservResult.result_12345"

\* _fixupTargetName: if(_config.targetTable.empty()) ...
TargetName(configured) == IF configured = "" THEN GeneratedTarget ELSE configured

\* a _fixupTargetName that merges straight into the target
MergeTableName_Target(target, fixup) == target

\* _fixupTargetName: the merging temporary if a fixup is needed
MergeTableName(target, fixup) == IF fixup THEN target \o "_m" ELSE target

\* InfileMerger::InfileMerger: the state after construction.  _needHeader is
\* not in the constructor's initializer list, so its first read yields an
\* indeterminate value.
Init ==
    /\ needsFixup \in BOOLEAN
    /\ targetTable \in {TargetName(c) : c \in ConfiguredTargets}
    /\ mergeTable = MergeTableName(targetTable, needsFixup)
    /\ errorCode = "NONE"
    /\ errorStatus = "NONE"
    /\ isFinished = FALSE
    /\ needHeader \in BOOLEAN
    /\ needCreateTable = TRUE
    /\ msgsOwned = TRUE
    /\ msgs = [size |-> 0, md5 |-> 0, result |-> <<>>]
    /\ sqlConnected = FALSE
    /\ mysqlConnected = TRUE
    /\ numInflight = 0
    /\ mutex = [m \in {"createTable", "sql", "mysql", "inflight"} |-> "free"]
    /\ sqlLog = <<>>
    /\ actions = <<>>
    /\ crashed = FALSE
    /\ pc = [t \in Threads |-> Idle]
    /\ op = [t \in Threads |-> "none"]
    /\ buf = [t \in Threads |-> <<>>]
    /\ ret = [t \in Threads |-> NoRet]
    /\ phSize = [t \in Threads |-> 0]
    /\ payload = [t \in Threads |-> <<>>]
    /\ dispatched = [t \in Threads |-> FALSE]
    /\ onlyFrames = TRUE
    /\ callsMade = 0

\* a call returns r to its caller; the frame of _fetchHeader is popped
Return(t, r) ==
    /\ pc' = [pc EXCEPT ![t] = Idle]
    /\ ret' = [ret EXCEPT ![t] = r]
    /\ buf' = [buf EXCEPT ![t] = <<>>]
    /\ phSize' = [phSize EXCEPT ![t] = 0]
    /\ payload' = [payload EXCEPT ![t] = <<>>]

Goto(t, label) == pc' = [pc EXCEPT ![t] = label]

\* engine error numbers a failing statement or connect can report
EngineErrnos == {"1114", "1146"}

\* the bytes a read of n bytes at offset off of thread t's buffer can see:
\* the caller's bytes where the buffer has them, whatever lies behind the
\* buffer where it does not
BytesAt(t, off, n) ==
    {b \in [1..n -> Byte] : \A i \in 1..n : off + i <= Len(buf[t]) => b[i] = buf[t][off + i]}

HeaderSize(bytes) == bytes[1]
HeaderMd5(bytes) == bytes[2]

\* ------------------------------------------------------------------ merge
\* merge() without its guard against a session in error
ErrorRecorded_Unchecked == FALSE

\* if(_error.errorCode) at the top of merge()
ErrorRecorded == errorCode # "NONE"

\* merge(), entry: "Do not attempt when in an error state."
Merge_Enter(t, b) ==
    /\ ~crashed /\ pc[t] = Idle /\ callsMade < MaxCalls
    /\ op' = [op EXCEPT ![t] = "merge"]
    /\ dispatched' = [dispatched EXCEPT ![t] = FALSE]
    /\ callsMade' = callsMade + 1
    /\ onlyFrames' = (onlyFrames /\ b \in WellFormedFrames)
    /\ IF ErrorRecorded
         THEN /\ ret' = [ret EXCEPT ![t] = OffT(-1)]
              /\ UNCHANGED <<pc, buf>>
         ELSE /\ ret' = [ret EXCEPT ![t] = NoRet]
              /\ buf' = [buf EXCEPT ![t] = b]
              /\ Goto(t, "m347")
    /\ UNCHANGED <<session, mutex, sqlLog, actions, crashed, phSize, payload>>

\* merge(): if(_needHeader) ... else _waitPacket(); return dumpLength;
Merge_NeedHeader(t) ==
    /\ ~crashed /\ pc[t] = "m347"
    /\ IF needHeader
         THEN Goto(t, "fh_hdr") /\ UNCHANGED <<ret, buf, phSize, payload>>
         ELSE Return(t, OffT(Len(buf[t])))
    /\ UNCHANGED <<session, mutex, sqlLog, actions, crashed, op, dispatched,
                   onlyFrames, callsMade>>

\* _fetchHeader: read the length byte and decode the header envelope
FetchHeader_Header(t) ==
    /\ ~crashed /\ pc[t] = "fh_hdr"
    /\ \E lenByte \in BytesAt(t, 0, 1) :
         \E hdr \in BytesAt(t, 1, lenByte[1]) :
           IF ~HeaderParses(hdr)
             THEN /\ errorCode' = "HEADER_IMPORT"
                  /\ Return(t, OffT(0))
                  /\ UNCHANGED msgs
             ELSE /\ msgs' = [msgs EXCEPT !.size = HeaderSize(hdr), !.md5 = HeaderMd5(hdr)]
                  /\ phSize' = [phSize EXCEPT ![t] = lenByte[1]]
                  /\ Goto(t, "fh_remain")
                  /\ UNCHANGED <<errorCode, ret, buf, payload>>
    /\ UNCHANGED <<needsFixup, targetTable, mergeTable, errorStatus, isFinished, needHeader,
                   needCreateTable, msgsOwned, sqlConnected, mysqlConnected, numInflight,
                   mutex, sqlLog, actions, crashed, op, dispatched, onlyFrames, callsMade>>

\* an overflow recorded as a header that did not decode
HEADER_OVERFLOW_AsImport == "HEADER_IMPORT"

\* InfileMergerError::HEADER_OVERFLOW
HEADER_OVERFLOW == "HEADER_OVERFLOW"

\* _fetchHeader: if(remain < _msgs->protoHeader.size())
FetchHeader_Remain(t) ==
    /\ ~crashed /\ pc[t] = "fh_remain"
    /\ IF Len(buf[t]) - 1 - phSize[t] < msgs.size
         THEN /\ errorCode' = HEADER_OVERFLOW
              /\ Return(t, OffT(0))
         ELSE /\ Goto(t, "fh_result")
              /\ UNCHANGED <<errorCode, ret, buf, phSize, payload>>
    /\ UNCHANGED <<needsFixup, targetTable, mergeTable, errorStatus, isFinished, needHeader,
                   needCreateTable, msgsOwned, msgs, sqlConnected, mysqlConnected,
                   numInflight, mutex, sqlLog, actions, crashed, op, dispatched,
                   onlyFrames, callsMade>>

\* _fetchHeader: decode the Result message out of resultSize payload bytes
FetchHeader_Result(t) ==
    /\ ~crashed /\ pc[t] = "fh_result"
    /\ \E pl \in BytesAt(t, 1 + phSize[t], msgs.size) :
         IF ~ResultParses(pl)
           THEN /\ errorCode' = "RESULT_IMPORT"
                /\ Return(t, Thrown)
                /\ UNCHANGED msgs
           ELSE /\ msgs' = [msgs EXCEPT !.result = pl]
                /\ payload' = [payload EXCEPT ![t] = pl]
                /\ Goto(t, "st_lock")
                /\ UNCHANGED <<errorCode, ret, buf, phSize>>
    /\ UNCHANGED <<needsFixup, targetTable, mergeTable, errorStatus, isFinished, needHeader,
                   needCreateTable, msgsOwned, sqlConnected, mysqlConnected, numInflight,
                   mutex, sqlLog, actions, crashed, op, dispatched, onlyFrames, callsMade>>


\* ------------------------------------------------------------ _setupTable
\* a lock_guard that takes nothing
Lock_Nothing(m, t) == mutex' = mutex

\* boost::lock_guard<boost::mutex> constructed by thread t
Lock(m, t) == mutex' = [mutex EXCEPT ![m] = t]

\* a lock_guard that never lets go
Unlock_Never(m) == mutex' = mutex

\* boost::lock_guard<boost::mutex> destroyed
Unlock(m) == mutex' = [mutex EXCEPT ![m] = "free"]

\* index of the statement thread t has running on the engine
RunningStmt(t) == CHOOSE i \in DOMAIN sqlLog : sqlLog[i].by = t /\ sqlLog[i].state = "running"

\* _setupTable: lock_guard(_createTableMutex); if(_needCreateTable) ... else
\* "Do nothing, table already created."
SetupTable_Lock(t) ==
    /\ ~crashed /\ pc[t] = "st_lock"
    /\ mutex["createTable"] = "free"
    /\ IF needCreateTable
         THEN Lock("createTable", t) /\ Goto(t, "sql_lock")
         ELSE UNCHANGED mutex /\ Goto(t, "fh_err")
    /\ UNCHANGED <<session, sqlLog, actions, crashed, op, buf, ret, phSize, payload,
                   dispatched, onlyFrames, callsMade>>

\* _applySqlLocal: lock_guard(_sqlMutex); connect _sqlConn on first use
ApplySqlLocal_Connect(t) ==
    /\ ~crashed /\ pc[t] = "sql_lock"
    /\ mutex["sql"] = "free"
    /\ IF sqlConnected
         THEN /\ Lock("sql", t) /\ Goto(t, "sql_run")
              /\ UNCHANGED <<sqlConnected, errorStatus, errorCode>>
         ELSE \/ /\ sqlConnected' = TRUE
                 /\ Lock("sql", t) /\ Goto(t, "sql_run")
                 /\ UNCHANGED <<errorStatus, errorCode>>
              \/ /\ errorStatus' = "MYSQLCONNECT"
                 /\ errorCode' \in EngineErrnos
                 /\ Goto(t, "st_fail")
                 /\ UNCHANGED <<sqlConnected, mutex>>
    /\ UNCHANGED <<needsFixup, targetTable, mergeTable, isFinished, needHeader, needCreateTable,
                   msgsOwned, msgs, mysqlConnected, numInflight, sqlLog, actions, crashed,
                   op, buf, ret, phSize, payload, dispatched, onlyFrames, callsMade>>

\* _applySqlLocal: _sqlConn->runQuery(createStmt): the CREATE TABLE built by
\* sql::formCreateTable(_mergeTable, schema of _msgs->result) reaches the engine
ApplySqlLocal_Run(t) ==
    /\ ~crashed /\ pc[t] = "sql_run"
    /\ sqlLog' = Append(sqlLog, [kind |-> "CREATE", conn |-> "sqlConn", by |-> t,
                                 table |-> mergeTable, frame |-> buf[t],
                                 state |-> "running"])
    /\ Goto(t, "sql_done")
    /\ UNCHANGED <<session, mutex, actions, crashed, op, buf, ret, phSize, payload,
                   dispatched, onlyFrames, callsMade>>

\* _applySqlLocal: the statement completes; on failure the engine error is
\* recorded on the session
ApplySqlLocal_Done(t) ==
    /\ ~crashed /\ pc[t] = "sql_done"
    /\ \/ /\ sqlLog' = [sqlLog EXCEPT ![RunningStmt(t)].state = "ok"]
          /\ Goto(t, "st_ok")
          /\ UNCHANGED <<errorStatus, errorCode>>
       \/ /\ sqlLog' = [sqlLog EXCEPT ![RunningStmt(t)].state = "failed"]
          /\ errorStatus' = "MYSQLEXEC"
          /\ errorCode' \in EngineErrnos
          /\ Goto(t, "st_fail")
    /\ Unlock("sql")
    /\ UNCHANGED <<needsFixup, targetTable, mergeTable, isFinished, needHeader, needCreateTable,
                   msgsOwned, msgs, sqlConnected, mysqlConnected, numInflight, actions,
                   crashed, op, buf, ret, phSize, payload, dispatched, onlyFrames, callsMade>>

\* _setupTable: if(!_applySqlLocal(createStmt)) { CREATE_TABLE; _isFinished = true; return; }
SetupTable_Fail(t) ==
    /\ ~crashed /\ pc[t] = "st_fail"
    /\ errorCode' = "CREATE_TABLE"
    /\ isFinished' = TRUE
    /\ Unlock("createTable")
    /\ Goto(t, "fh_err")
    /\ UNCHANGED <<needsFixup, targetTable, mergeTable, errorStatus, needHeader, needCreateTable,
                   msgsOwned, msgs, sqlConnected, mysqlConnected, numInflight, sqlLog,
                   actions, crashed, op, buf, ret, phSize, payload, dispatched, onlyFrames,
                   callsMade>>

\* _setupTable: _needCreateTable = false;
SetupTable_Ok(t) ==
    /\ ~crashed /\ pc[t] = "st_ok"
    /\ needCreateTable' = FALSE
    /\ Unlock("createTable")
    /\ Goto(t, "fh_err")
    /\ UNCHANGED <<needsFixup, targetTable, mergeTable, errorCode, errorStatus, isFinished, needHeader,
                   msgsOwned, msgs, sqlConnected, mysqlConnected, numInflight, sqlLog,
                   actions, crashed, op, buf, ret, phSize, payload, dispatched, onlyFrames,
                   callsMade>>

\* ------------------------------------------- _fetchHeader after _setupTable
\* _fetchHeader going on to the load whatever _setupTable recorded
SetupTableFailed_Unchecked == FALSE

\* if(_error.errorCode) after _setupTable()
SetupTableFailed == errorCode # "NONE"

\* _fetchHeader returns -1; merge() then takes hSize != 0, runs the stub
\* _waitPacket and returns dumpLength
FetchHeader_CheckError(t) ==
    /\ ~crashed /\ pc[t] = "fh_err"
    /\ IF SetupTableFailed
         THEN Return(t, OffT(Len(buf[t])))
         ELSE Goto(t, "fh_md5") /\ UNCHANGED <<ret, buf, phSize, payload>>
    /\ UNCHANGED <<session, mutex, sqlLog, actions, crashed, op, dispatched,
                   onlyFrames, callsMade>>

\* _fetchHeader: compare protoHeader.md5() with the digest of the payload
\* bytes; on a match _needHeader = false
FetchHeader_Md5(t) ==
    /\ ~crashed /\ pc[t] = "fh_md5"
    /\ IF msgs.md5 # getMd5(payload[t])
         THEN /\ errorCode' = "RESULT_MD5"
              /\ Return(t, OffT(0))
              /\ UNCHANGED needHeader
         ELSE /\ needHeader' = FALSE
              /\ Goto(t, "act_new")
              /\ UNCHANGED <<errorCode, ret, buf, phSize, payload>>
    /\ UNCHANGED <<needsFixup, targetTable, mergeTable, errorStatus, isFinished, needCreateTable,
                   msgsOwned, msgs, sqlConnected, mysqlConnected, numInflight, mutex,
                   sqlLog, actions, crashed, op, dispatched, onlyFrames, callsMade>>


\* ------------------------------------------------------------ Mgr::Action
\* index of the action thread t constructed and has not yet seen terminate
MyAction(t) == CHOOSE i \in DOMAIN actions : actions[i].by = t /\ actions[i].state \in {"Prepared", "Running"}

\* Mgr::_incrementInflight: ++_numInflight under _inflightMutex
IncrementInflight(n) == n + 1

\* Mgr::signalDone: --_numInflight under _inflightMutex
SignalDone(n) == n - 1

\* what Action::operator() does to the in-flight counter when its load
\* statement has returned: nothing (it ends after assert(result))
Action_Terminate(n) == n

\* Mgr::Action a(*_mgr, _msgs, _mergeTable): the auto_ptr is moved out of the
\* facade into the parameter and on into the member _msgs; the constructor
\* body then reads msgs->result through the emptied parameter.  That read is
\* undefined: the process dies, or the row buffer is built over whatever the
\* read yields and construction goes on to _incrementInflight().
Action_Construct(t) ==
    /\ ~crashed /\ pc[t] = "act_new"
    /\ msgsOwned' = FALSE
    /\ \/ /\ crashed' = TRUE
          /\ UNCHANGED <<actions, numInflight, dispatched, pc, mutex>>
       \/ /\ mutex["inflight"] = "free"
          /\ Lock("inflight", t)
          /\ actions' = Append(actions, [by |-> t, table |-> mergeTable, frame |-> buf[t],
                                         ownsMsgs |-> msgsOwned, state |-> "Prepared"])
          /\ numInflight' = IncrementInflight(numInflight)
          /\ dispatched' = [dispatched EXCEPT ![t] = TRUE]
          /\ Goto(t, "act_inc")
          /\ UNCHANGED crashed
    /\ UNCHANGED <<needsFixup, targetTable, mergeTable, errorCode, errorStatus, isFinished, needHeader,
                   needCreateTable, msgs, sqlConnected, mysqlConnected, sqlLog,
                   op, buf, ret, phSize, payload, onlyFrames, callsMade>>

\* Mgr::_incrementInflight returns: its lock_guard releases _inflightMutex
IncrementInflight_Unlock(t) ==
    /\ ~crashed /\ pc[t] = "act_inc"
    /\ Unlock("inflight")
    /\ Goto(t, "act_run")
    /\ UNCHANGED <<needsFixup, targetTable, mergeTable, errorCode, errorStatus, isFinished,
                   needHeader, needCreateTable, msgsOwned, msgs, sqlConnected, mysqlConnected,
                   numInflight, sqlLog, actions, crashed, op, buf, ret, phSize, payload,
                   dispatched, onlyFrames, callsMade>>

\* boost::thread(a) runs Action::operator(): Mgr::applyMysql takes
\* _mysqlMutex; not connected -> return false, else the LOAD DATA statement of
\* sql::formLoadInfile(_table, _virtFile) reaches the engine
Action_Run(t) ==
    /\ ~crashed /\ pc[t] = "act_run"
    /\ mutex["mysql"] = "free"
    /\ IF mysqlConnected
         THEN /\ Lock("mysql", t)
              /\ sqlLog' = Append(sqlLog, [kind |-> "LOAD", conn |-> "mysqlConn", by |-> t,
                                           table |-> actions[MyAction(t)].table,
                                           frame |-> actions[MyAction(t)].frame,
                                           state |-> "running"])
              /\ actions' = [actions EXCEPT ![MyAction(t)].state = "Running"]
              /\ Goto(t, "load_done")
              /\ UNCHANGED numInflight
         ELSE /\ actions' = [actions EXCEPT ![MyAction(t)].state = "Failed"]
              /\ numInflight' = Action_Terminate(numInflight)
              /\ Goto(t, "act_assert")
              /\ UNCHANGED <<mutex, sqlLog>>
    /\ UNCHANGED <<needsFixup, targetTable, mergeTable, errorCode, errorStatus, isFinished, needHeader,
                   needCreateTable, msgsOwned, msgs, sqlConnected, mysqlConnected, crashed,
                   op, buf, ret, phSize, payload, dispatched, onlyFrames, callsMade>>

\* Mgr::applyMysql: queryUnbuffered returns; the guard releases _mysqlMutex
Action_LoadDone(t) ==
    /\ ~crashed /\ pc[t] = "load_done"
    /\ \/ /\ sqlLog' = [sqlLog EXCEPT ![RunningStmt(t)].state = "ok"]
          /\ actions' = [actions EXCEPT ![MyAction(t)].state = "Done"]
          /\ Goto(t, "act_join")
       \/ /\ sqlLog' = [sqlLog EXCEPT ![RunningStmt(t)].state = "failed"]
          /\ actions' = [actions EXCEPT ![MyAction(t)].state = "Failed"]
          /\ Goto(t, "act_assert")
    /\ numInflight' = Action_Terminate(numInflight)
    /\ Unlock("mysql")
    /\ UNCHANGED <<needsFixup, targetTable, mergeTable, errorCode, errorStatus, isFinished, needHeader,
                   needCreateTable, msgsOwned, msgs, sqlConnected, mysqlConnected, crashed,
                   op, buf, ret, phSize, payload, dispatched, onlyFrames, callsMade>>

\* Action::operator(): assert(result) with result == false: abort() in a
\* build with assertions, nothing under NDEBUG
Action_Assert(t) ==
    /\ ~crashed /\ pc[t] = "act_assert"
    /\ \/ crashed' = TRUE /\ UNCHANGED pc
       \/ Goto(t, "act_join") /\ UNCHANGED crashed
    /\ UNCHANGED <<session, mutex, sqlLog, actions, op, buf, ret, phSize, payload,
                   dispatched, onlyFrames, callsMade>>

\* t->join(); delete t; return 0;  merge() reads hSize == 0 and returns 0
Action_Join(t) ==
    /\ ~crashed /\ pc[t] = "act_join"
    /\ Return(t, OffT(0))
    /\ UNCHANGED <<session, mutex, sqlLog, actions, crashed, op, dispatched,
                   onlyFrames, callsMade>>

\* --------------------------------------------------------------- finalize
\* a finalize() that answers true to the first call only
FinalizeResult_FirstCallOnly == \A u \in Threads : op[u] # "finalize"

\* the value finalize() returns (its body is compiled out: "return false;")
FinalizeResult == FALSE

\* bool InfileMerger::finalize()
Finalize(t) ==
    /\ ~crashed /\ pc[t] = Idle /\ callsMade < MaxCalls
    /\ op' = [op EXCEPT ![t] = "finalize"]
    /\ ret' = [ret EXCEPT ![t] = Bool(FinalizeResult)]
    /\ callsMade' = callsMade + 1
    /\ onlyFrames' = FALSE
    /\ UNCHANGED <<session, mutex, sqlLog, actions, crashed, pc, buf, phSize, payload,
                   dispatched>>

\* bool InfileMerger::isFinished() const
IsFinished == isFinished

\* ------------------------------------------------------------ environment
\* a thread inside _fetchHeader / _setupTable dereferences _msgs after
\* another thread's action took the Msgs away: undefined; the process may die
\* (the other outcome, running on, is the thread's ordinary next step)
NullDeref(t) ==
    /\ ~crashed /\ ~msgsOwned
    /\ pc[t] \in {"fh_hdr", "fh_remain", "fh_result", "sql_lock", "fh_md5"}
    /\ crashed' = TRUE
    /\ UNCHANGED <<session, mutex, sqlLog, actions, locals, onlyFrames, callsMade>>

\* the engine drops the Mgr's connection: _mysqlConn.connected() turns false.
\* Only applyMysql reads it, so the loss is taken where a load is about to
\* read it; a loss at any earlier moment is observed as this one is.
ConnectionLost ==
    /\ ~crashed /\ mysqlConnected
    /\ \E t \in Threads : pc[t] = "act_run"
    /\ mysqlConnected' = FALSE
    /\ UNCHANGED <<needsFixup, targetTable, mergeTable, errorCode, errorStatus, isFinished, needHeader,
                   needCreateTable, msgsOwned, msgs, sqlConnected, numInflight, mutex,
                   sqlLog, actions, crashed, locals, onlyFrames, callsMade>>

(***************************************************************************)
(* Model of the table metadata pool of qserv's query analysis:             *)
(*   core/modules/qana/TableInfoPool.cc                                    *)
(* One TableInfoPool, a configuration store (css::CssAccess) and caller    *)
(* threads that invoke get(ctx, db, table).                                *)
(***************************************************************************)

\* ------------------------------------------------------------------ bounds
\* top-level get(ctx, db, table) calls made in a run
MaxGets == 2
\* nested get() activations the stack holds; deeper recursion overflows it
MaxDepth == 3

\* ------------------------------------------------------ configuration store
\* ctx.defaultDb
DefaultDb == "LSST"
\* the db argument of a top-level call
DbArgs == {"", DefaultDb}

\* css::TableParams of a table without partitioning
NoParams ==
    [chunkLevel |-> 0, dirTable |-> "", dirColName |-> "", isMatchTable |-> FALSE,
     dirTable1 |-> "", dirTable2 |-> "", dirColName1 |-> "", dirColName2 |-> "",
     partitionCols |-> <<>>]

DirParams(self, cols) ==
    [NoParams EXCEPT !.chunkLevel = 2, !.dirTable = self, !.partitionCols = cols]
ChildParams(dir, col) ==
    [NoParams EXCEPT !.chunkLevel = 1, !.dirTable = dir, !.dirColName = col]
MatchParams(d1, d2, c1, c2) ==
    [NoParams EXCEPT !.chunkLevel = 1, !.isMatchTable = TRUE, !.dirTable1 = d1,
                     !.dirTable2 = d2, !.dirColName1 = c1, !.dirColName2 = c2]

\* the tables of database DefaultDb in the store
Catalog ==
    [Object    |-> DirParams("", <<"ra", "decl", "objectId">>),
     Source    |-> DirParams("Source", <<"ra", "decl", "sourceId">>),
     BadDir    |-> DirParams("", <<"ra", "ra", "id">>),
     RefMatch  |-> MatchParams("Object", "Source", "objectId", "sourceId"),
     SameCols  |-> MatchParams("Object", "Source", "id", "id"),
     NoCol     |-> MatchParams("Object", "Source", "objectId", ""),
     Child     |-> ChildParams("Object", "objectId"),
     Orphan    |-> ChildParams("Child", "objectId"),
     Loop      |-> MatchParams("Loop", "Object", "loopId", "objectId"),
     Flat      |-> [DirParams("", <<"ra", "decl", "flatId">>) EXCEPT !.chunkLevel = 1],
     NoFk      |-> ChildParams("Object", ""),
     Deep      |-> [ChildParams("Object", "objectId") EXCEPT !.chunkLevel = 2],
     Plain     |-> [MatchParams("Object", "Source", "objectId", "sourceId")
                       EXCEPT !.chunkLevel = 0]]

StoredTables == DOMAIN Catalog
\* the table argument of a top-level call ("Nope" is in no database)
TableArgs == StoredTables \cup {"Nope"}

\* sort rank of a table name (std::string operator<)
NameRank(n) ==
    CASE n = "BadDir" -> 1 [] n = "Child" -> 2 [] n = "Deep" -> 3 [] n = "Flat" -> 4
      [] n = "Loop" -> 5 [] n = "NoCol" -> 6 [] n = "NoFk" -> 7 [] n = "Nope" -> 8
      [] n = "Object" -> 9 [] n = "Orphan" -> 10 [] n = "Plain" -> 11
      [] n = "RefMatch" -> 12 [] n = "SameCols" -> 13 [] n = "Source" -> 14
DbRank(d) == IF d = "" THEN 0 ELSE 1

\* partitioning ids the store may hold for DefaultDb
PartitioningIds == {17, 18}

\* --------------------------------------------------------------- pool state
VARIABLES
    pool,        \* _pool: the vector of descriptors, in vector order
    stack,       \* per thread: the activations of get(ctx, db, table), outermost first
    rv,          \* per thread: the value the last returned activation gave its caller
    gcall,       \* per thread: arguments of its latest top-level call
    gres,        \* per thread: outcome of its latest top-level call
    striping,    \* the store's partitioningId of DefaultDb
    storeFixed,  \* the store has not been changed since the pool was built
    queries,     \* every store query made so far: function and db argument
    lookups,     \* every db name used in a pool lookup so far
    poolAtCall,  \* per thread: the pool when its latest top-level call began
    returned,    \* every (db, table, descriptor) a top-level call has returned
    oneAtATime,  \* no top-level call began while another was in progress
    getsMade,    \* top-level calls made so far
    poolCrashed  \* the process died (stack overflow, use of a stale iterator)

poolVars == <<pool, stack, rv, gcall, gres, striping, storeFixed, queries, lookups,
              poolAtCall, returned, oneAtATime, getsMade, poolCrashed>>

\* TableInfo kinds
DIRECTOR == "DIRECTOR"
MATCH == "MATCH"
CHILD == "CHILD"

\* a TableInfo under construction (id 0: not yet an element of the pool)
NewTableInfo(db, table, kind) ==
    [id |-> 0, db |-> db, table |-> table, kind |-> kind, dir1 |-> 0, dir2 |-> 0,
     fk1 |-> "", fk2 |-> "", lon |-> "", lat |-> "", pk |-> "", partitioningId |-> 0]

\* one activation of get(ctx, db, table)
NewFrame(dbArg, table) ==
    [dbArg |-> dbArg, table |-> table, pc |-> "get",
     p |-> NewTableInfo("", "", ""), pos |-> 0, snap |-> 0]

NoResult == [outcome |-> "none", id |-> 0]

\* TableInfoPool(): an empty pool
PoolInit ==
    /\ pool = <<>>
    /\ stack = [t \in Threads |-> <<>>]
    /\ rv = [t \in Threads |-> 0]
    /\ gcall = [t \in Threads |-> [dbArg |-> "", table |-> ""]]
    /\ gres = [t \in Threads |-> NoResult]
    /\ striping = 17
    /\ storeFixed = TRUE
    /\ queries = {}
    /\ lookups = {}
    /\ poolAtCall = [t \in Threads |-> <<>>]
    /\ returned = {}
    /\ oneAtATime = TRUE
    /\ getsMade = 0
    /\ poolCrashed = FALSE

\* TableInfoLt: order by (database, table)
TableInfoLt(a, b) ==
    \/ DbRank(a.db) < DbRank(b.db)
    \/ a.db = b.db /\ NameRank(a.table) < NameRank(b.table)

\* std::lower_bound over [first, first + len) of the pool (0-based first)
RECURSIVE LowerBound(_, _, _, _)
LowerBound(v, val, first, len) ==
    IF len <= 0 THEN first
    ELSE LET half == len \div 2
             mid == first + half
         IN IF TableInfoLt(v[mid + 1], val)
              THEN LowerBound(v, val, mid + 1, len - half - 1)
              ELSE LowerBound(v, val, first, half)

\* std::upper_bound over [first, first + len) of the pool (0-based first)
RECURSIVE UpperBound(_, _, _, _)
UpperBound(v, val, first, len) ==
    IF len <= 0 THEN first
    ELSE LET half == len \div 2
             mid == first + half
         IN IF TableInfoLt(val, v[mid + 1])
              THEN UpperBound(v, val, first, half)
              ELSE UpperBound(v, val, mid + 1, len - half - 1)

\* std::equal_range over [first, first + len) of the pool: <<lower, upper>>
RECURSIVE EqualRange(_, _, _, _)
EqualRange(v, val, first, len) ==
    IF len <= 0 THEN <<first, first>>
    ELSE LET half == len \div 2
             mid == first + half
         IN IF TableInfoLt(v[mid + 1], val)
              THEN EqualRange(v, val, mid + 1, len - half - 1)
              ELSE IF TableInfoLt(val, v[mid + 1])
                     THEN EqualRange(v, val, first, half)
                     ELSE <<LowerBound(v, val, first, half),
                            UpperBound(v, val, mid + 1, len - half - 1)>>

\* a get(db, table) that finds the pooled directors only
PoolGet_DirectorsOnly(v, db, table) ==
    LET p == EqualRange(v, NewTableInfo(db, table, DIRECTOR), 0, Len(v))
    IN IF p[1] = p[2] \/ v[p[1] + 1].kind # DIRECTOR THEN 0 ELSE v[p[1] + 1].id

\* a get(db, table) that never finds what the pool holds
PoolGet_Miss(v, db, table) == 0

\* TableInfo const* TableInfoPool::get(db, table) const: the id of the first
\* element of equal_range, 0 for a null pointer
PoolGet(v, db, table) ==
    LET p == EqualRange(v, NewTableInfo(db, table, DIRECTOR), 0, Len(v))
    IN IF p[1] = p[2] THEN 0 ELSE v[p[1] + 1].id

\* the pool element a pointer refers to
Deref(v, id) == CHOOSE d \in {v[i] : i \in DOMAIN v} : d.id = id

\* a cast that lets every descriptor through
DynamicCastDir_Any(v, id) == id

\* dynamic_cast<DirTableInfo const*>
DynamicCastDir(v, id) ==
    IF id # 0 /\ Deref(v, id).kind = DIRECTOR THEN id ELSE 0

\* a vector that appends whatever position it is given
VectorInsert_Back(v, i, d) == Append(v, d)

\* TableInfoPool::_insert, the vector insert before position i (0-based)
VectorInsert(v, i, d) ==
    SubSeq(v, 1, i) \o <<d>> \o SubSeq(v, i + 1, Len(v))

\* ------------------------------------------------------- get(ctx, db, table)
Top(t) == stack[t][Len(stack[t])]
AtPc(t, label) == ~poolCrashed /\ stack[t] # <<>> /\ Top(t).pc = label

\* std::string const& db_ = db.empty() ? ctx.defaultDb : db;
Db_(f) == IF f.dbArg = "" THEN DefaultDb ELSE f.dbArg

\* the activation goes on at another statement
SetTop(t, f) ==
    /\ stack' = [stack EXCEPT ![t] = [@ EXCEPT ![Len(@)] = f]]
    /\ UNCHANGED <<rv, gres, returned, poolCrashed>>

\* a nested get(ctx, db_, table); recursion beyond the stack's depth kills the process
Call(t, caller, table) ==
    /\ IF Len(stack[t]) < MaxDepth
         THEN /\ stack' = [stack EXCEPT ![t] =
                     SubSeq(@, 1, Len(@) - 1) \o <<caller, NewFrame(Db_(caller), table)>>]
              /\ poolCrashed' = poolCrashed
         ELSE /\ poolCrashed' = TRUE
              /\ stack' = stack
    /\ UNCHANGED <<rv, gres, returned>>

\* return of an activation: to the caller of the top-level call, or to the
\* activation that made the nested call
GetReturn(t, id) ==
    /\ IF Len(stack[t]) = 1
         THEN /\ stack' = [stack EXCEPT ![t] = <<>>]
              /\ gres' = [gres EXCEPT ![t] =
                            [outcome |-> IF id = 0 THEN "null" ELSE "desc", id |-> id]]
              /\ returned' = IF id = 0 THEN returned
                             ELSE returned \cup {[db |-> Db_(Top(t)),
                                                  table |-> Top(t).table, id |-> id]}
              /\ rv' = rv
         ELSE /\ stack' = [stack EXCEPT ![t] = SubSeq(@, 1, Len(@) - 1)]
              /\ rv' = [rv EXCEPT ![t] = id]
              /\ UNCHANGED <<gres, returned>>
    /\ poolCrashed' = poolCrashed

\* an exception leaves every activation of the thread; each unique_ptr frees
\* the descriptor it was building
GetThrow(t, error) ==
    /\ stack' = [stack EXCEPT ![t] = <<>>]
    /\ gres' = [gres EXCEPT ![t] = [outcome |-> error, id |-> 0]]
    /\ UNCHANGED <<rv, returned, poolCrashed>>

Query(fn, db) == queries' = queries \cup {[fn |-> fn, db |-> db]}

\* the store knows the table
InStore(db, table) == db = DefaultDb /\ table \in StoredTables

\* a caller invokes get(ctx, db, table)
Get_Call(t, db, table) ==
    /\ ~poolCrashed /\ stack[t] = <<>> /\ getsMade < MaxGets
    /\ stack' = [stack EXCEPT ![t] = <<NewFrame(db, table)>>]
    /\ gcall' = [gcall EXCEPT ![t] = [dbArg |-> db, table |-> table]]
    /\ gres' = [gres EXCEPT ![t] = NoResult]
    /\ poolAtCall' = [poolAtCall EXCEPT ![t] = pool]
    /\ oneAtATime' = (oneAtATime /\ \A u \in Threads : stack[u] = <<>>)
    /\ getsMade' = getsMade + 1
    /\ UNCHANGED <<pool, rv, striping, storeFixed, queries, lookups, returned, poolCrashed>>

\* TableInfo const* t = get(db_, table); if (t) return t;
Get_Lookup(t) ==
    /\ AtPc(t, "get")
    /\ lookups' = lookups \cup {Db_(Top(t))}
    /\ LET id == PoolGet(pool, Db_(Top(t)), Top(t).table)
       IN IF id # 0 THEN GetReturn(t, id)
                    ELSE SetTop(t, [Top(t) EXCEPT !.pc = "params"])
    /\ UNCHANGED <<pool, gcall, striping, storeFixed, queries, poolAtCall, oneAtATime,
                   getsMade>>

\* a get() that takes no table for unpartitioned
Unpartitioned_Never(chunkLevel) == FALSE

\* a child branch that accepts every chunk level
ChildLevelBad_Never(chunkLevel) == FALSE

\* child table: if (chunkLevel != 1) throw
ChildLevelBad(chunkLevel) == chunkLevel # 1

\* if (chunkLevel == 0) return 0;
Unpartitioned(chunkLevel) == chunkLevel = 0

\* css.getTableParams(db_, table) and the dispatch on the table's role
Get_TableParams(t) ==
    /\ AtPc(t, "params")
    /\ Query("getTableParams", Db_(Top(t)))
    /\ LET f == Top(t)
           tParam == Catalog[f.table]
       IN IF ~InStore(Db_(f), f.table) THEN GetThrow(t, "CssError")
          ELSE IF Unpartitioned(tParam.chunkLevel) THEN GetReturn(t, 0)
          ELSE IF tParam.isMatchTable
            THEN Call(t, [f EXCEPT !.pc = "m1", !.p = NewTableInfo(Db_(f), f.table, MATCH)],
                      tParam.dirTable1)
          ELSE IF tParam.dirTable = "" \/ tParam.dirTable = f.table
            THEN IF tParam.chunkLevel # 2
                   THEN GetThrow(t, "InvalidTable")
                   ELSE SetTop(t, [f EXCEPT !.pc = "dir",
                                            !.p = NewTableInfo(Db_(f), f.table, DIRECTOR)])
          ELSE IF ChildLevelBad(tParam.chunkLevel)
            THEN GetThrow(t, "InvalidTable")
            ELSE Call(t, [f EXCEPT !.pc = "cr", !.p = NewTableInfo(Db_(f), f.table, CHILD)],
                      tParam.dirTable)
    /\ UNCHANGED <<pool, gcall, striping, storeFixed, lookups, poolAtCall, oneAtATime,
                   getsMade>>

\* p->director.first = dynamic_cast<...>(get(ctx, db_, m.dirTable1)); then the
\* nested get for m.dirTable2
Get_MatchFirst(t) ==
    /\ AtPc(t, "m1")
    /\ Call(t, [Top(t) EXCEPT !.pc = "m2", !.p.dir1 = DynamicCastDir(pool, rv[t])],
            Catalog[Top(t).table].dirTable2)
    /\ UNCHANGED <<pool, gcall, striping, storeFixed, queries, lookups, poolAtCall,
                   oneAtATime, getsMade>>

\* m.dirColName1 == m.dirColName2 || either is empty
MatchColsBad_Never(m) == FALSE

MatchColsBad(m) ==
    m.dirColName1 = m.dirColName2 \/ m.dirColName1 = "" \/ m.dirColName2 = ""

\* p->director.second = ...; the three checks of the match branch
Get_MatchSecond(t) ==
    /\ AtPc(t, "m2")
    /\ LET f == Top(t)
           m == Catalog[f.table]
           d1 == f.p.dir1
           d2 == DynamicCastDir(pool, rv[t])
       IN IF d1 = 0 \/ d2 = 0 THEN GetThrow(t, "InvalidTable")
          ELSE IF MatchColsBad(m) THEN GetThrow(t, "InvalidTable")
          ELSE IF Deref(pool, d1).partitioningId # Deref(pool, d2).partitioningId
            THEN GetThrow(t, "InvalidTable")
            ELSE SetTop(t, [f EXCEPT !.pc = "insert", !.p.dir2 = d2,
                                     !.p.fk1 = m.dirColName1, !.p.fk2 = m.dirColName2])
    /\ UNCHANGED <<pool, gcall, striping, storeFixed, queries, lookups, poolAtCall,
                   oneAtATime, getsMade>>

\* a check that lets every column list through
PartitionColsBad_Never(v) == FALSE

\* v.size() != 3 || an empty column || two equal columns
PartitionColsBad(v) ==
    \/ Len(v) # 3
    \/ \E i \in DOMAIN v : v[i] = ""
    \/ \E i, j \in DOMAIN v : i # j /\ v[i] = v[j]

\* css.getPartTableParams(db, table).partitionCols(): the query names db, the
\* argument as given, not db_. For a db the store does not hold it raises, or
\* answers without columns.
Get_DirCols(t) ==
    /\ AtPc(t, "dir")
    /\ Query("getPartTableParams", Top(t).dbArg)
    /\ LET f == Top(t)
           v == Catalog[f.table].partitionCols
       IN IF InStore(f.dbArg, f.table)
            THEN IF PartitionColsBad(v)
                   THEN GetThrow(t, "InvalidTable")
                   ELSE SetTop(t, [f EXCEPT !.pc = "strip", !.p.pk = v[3],
                                            !.p.lon = v[1], !.p.lat = v[2]])
            ELSE \/ GetThrow(t, "CssError")
                 \/ GetThrow(t, "InvalidTable")
    /\ UNCHANGED <<pool, gcall, striping, storeFixed, lookups, poolAtCall, oneAtATime,
                   getsMade>>

\* p->partitioningId = css.getDbStriping(db_).partitioningId;
Get_DirStriping(t) ==
    /\ AtPc(t, "strip")
    /\ Query("getDbStriping", Db_(Top(t)))
    /\ SetTop(t, [Top(t) EXCEPT !.pc = "insert", !.p.partitioningId = striping])
    /\ UNCHANGED <<pool, gcall, striping, storeFixed, lookups, poolAtCall, oneAtATime,
                   getsMade>>

\* p->director = dynamic_cast<...>(get(ctx, db_, partParam.dirTable)); p->fk
Get_ChildDirector(t) ==
    /\ AtPc(t, "cr")
    /\ LET f == Top(t)
           d == DynamicCastDir(pool, rv[t])
           fk == Catalog[f.table].dirColName
       IN IF d = 0 THEN GetThrow(t, "InvalidTable")
          ELSE IF fk = "" THEN GetThrow(t, "InvalidTable")
          ELSE SetTop(t, [f EXCEPT !.pc = "insert", !.p.dir1 = d, !.p.fk1 = fk])
    /\ UNCHANGED <<pool, gcall, striping, storeFixed, queries, lookups, poolAtCall,
                   oneAtATime, getsMade>>

\* _insert: Pool::iterator i = std::upper_bound(_pool.begin(), _pool.end(), t, ...)
Insert_UpperBound(t) ==
    /\ AtPc(t, "insert")
    /\ SetTop(t, [Top(t) EXCEPT !.pc = "insert2", !.snap = Len(pool),
                                !.pos = UpperBound(pool, Top(t).p, 0, Len(pool))])
    /\ UNCHANGED <<pool, gcall, striping, storeFixed, queries, lookups, poolAtCall,
                   oneAtATime, getsMade>>

\* _insert: _pool.insert(i, t); return p.release();
\* An insert by another thread since upper_bound leaves i stale: the vector
\* takes the element at the old position, or the process dies.
Insert_Insert(t) ==
    /\ AtPc(t, "insert2")
    /\ LET f == Top(t)
           d == [f.p EXCEPT !.id = Len(pool) + 1]
       IN \/ /\ pool' = VectorInsert(pool, f.pos, d)
             /\ GetReturn(t, d.id)
          \/ /\ f.snap # Len(pool)
             /\ poolCrashed' = TRUE
             /\ UNCHANGED <<pool, stack, rv, gres, returned>>
    /\ UNCHANGED <<gcall, striping, storeFixed, queries, lookups, poolAtCall, oneAtATime,
                   getsMade>>

\* the store's administrator changes the partitioning of DefaultDb (taken
\* here just before a get() reads it, the only place it is observed)
StoreUpdate ==
    /\ storeFixed /\ pool # <<>>
    /\ \E t \in Threads : AtPc(t, "strip")
    /\ striping' \in PartitioningIds \ {striping}
    /\ storeFixed' = FALSE
    /\ UNCHANGED <<pool, stack, rv, gcall, gres, queries, lookups, poolAtCall, returned,
                   oneAtATime, getsMade, poolCrashed>>

\* ==========================================================================
\* MetadataCache (meta/MetadataCache.cc): databases and their tables, filled
\* and queried by concurrent callers
\* ==========================================================================

\* calls made on the cache in a run
MaxCacheCalls == 3

\* database and table names callers use
CacheDbNames == {"LSST", "Test"}
CacheTableNames == {"Object", "Source"}

\* MetadataCache status codes
STATUS_OK == "STATUS_OK"
STATUS_ERR_DB_DOES_NOT_EXIST == "STATUS_ERR_DB_DOES_NOT_EXIST"
STATUS_ERR_DB_EXISTS == "STATUS_ERR_DB_EXISTS"
STATUS_ERR_TABLE_EXISTS == "STATUS_ERR_TABLE_EXISTS"

\* logicalPart values given to addTbInfoPartitionedSphBox
LogicalParts == {0, 1, 2, 3}

\* TableInfo::TableInfo(): a non-partitioned table
TableInfo_NonPartitioned == [isPartitioned |-> FALSE, logicalPart |-> -1]
\* TableInfo::TableInfo(overlap, ..., logicalPart, physChunking)
TableInfo_Partitioned(logicalPart) == [isPartitioned |-> TRUE, logicalPart |-> logicalPart]

\* DbInfo::DbInfo() and DbInfo::DbInfo(nStripes, nSubStripes, ...)
DbInfo_NonPartitioned == [isPartitioned |-> FALSE, nStripes |-> -1, tables |-> <<>>]
DbInfo_Partitioned(nStripes) == [isPartitioned |-> TRUE, nStripes |-> nStripes, tables |-> <<>>]
StripeCounts == {18}

VARIABLES
    dbs,         \* _dbs: database name -> DbInfo (with its _tables map)
    cpc,         \* per thread: where it is in its call on the cache
    ccall,       \* per thread: its latest call and arguments
    cres,        \* per thread: how its latest call ended
    cacheCalls   \* calls made so far

cacheVars == <<dbs, cpc, ccall, cres, cacheCalls>>

\* a call on the cache: the operation, its names, and the DbInfo or TableInfo
\* an add call supplies
CallOf(fn, dbName, tbName, dbInfo, tbInfo) ==
    [op |-> fn, db |-> dbName, table |-> tbName, dbInfo |-> dbInfo, tbInfo |-> tbInfo]
NoCall == CallOf("none", "", "", DbInfo_NonPartitioned, TableInfo_NonPartitioned)
Pending == [kind |-> "none", val |-> 0]
Returns(v) == [kind |-> "returns", val |-> v]
Throws(what) == [kind |-> "throws", val |-> what]

\* MetadataCache(): no database
CacheInit ==
    /\ dbs = <<>>
    /\ cpc = [t \in Threads |-> Idle]
    /\ ccall = [t \in Threads |-> NoCall]
    /\ cres = [t \in Threads |-> Pending]
    /\ cacheCalls = 0

\* std::map::find(key) != end()
MapContains(m, k) == k \in DOMAIN m

\* std::map::insert(std::pair(k, v)): an existing key keeps its value
MapInsert(m, k, v) ==
    IF k \in DOMAIN m THEN m
    ELSE [x \in DOMAIN m \cup {k} |-> IF x = k THEN v ELSE m[x]]

\* int DbInfo::getChunkLevel(tableName) const
DbInfo_getChunkLevel(db, tableName) ==
    IF ~MapContains(db.tables, tableName)
      THEN Throws("invalid_argument")
      ELSE Returns(IF db.tables[tableName].isPartitioned
                     THEN db.tables[tableName].logicalPart ELSE 0)

\* bool DbInfo::checkIfTableIsChunked(tableName) const
DbInfo_checkIfTableIsChunked(db, tableName) ==
    IF ~MapContains(db.tables, tableName)
      THEN Throws("invalid_argument")
      ELSE Returns(db.tables[tableName].isPartitioned)

\* bool DbInfo::checkIfTableIsSubChunked(tableName) const
DbInfo_checkIfTableIsSubChunked(db, tableName) ==
    IF ~MapContains(db.tables, tableName)
      THEN Throws("invalid_argument")
      ELSE Returns(2 = db.tables[tableName].logicalPart)

\* int DbInfo::addTable(tbName, tbInfo): the status it returns
DbInfo_addTable(db, tbName) ==
    IF MapContains(db.tables, tbName) THEN STATUS_ERR_TABLE_EXISTS ELSE STATUS_OK

\* a caller starts a call on the cache
CacheCall(t, c, label) ==
    /\ cpc[t] = Idle /\ cacheCalls < MaxCacheCalls
    /\ ccall' = [ccall EXCEPT ![t] = c]
    /\ cres' = [cres EXCEPT ![t] = Pending]
    /\ cpc' = [cpc EXCEPT ![t] = label]
    /\ cacheCalls' = cacheCalls + 1
    /\ UNCHANGED dbs

\* the call of thread t ends
CacheReturn(t, r) ==
    /\ cres' = [cres EXCEPT ![t] = r]
    /\ cpc' = [cpc EXCEPT ![t] = Idle]
    /\ UNCHANGED <<ccall, cacheCalls>>

\* addDbInfoNonPartitioned(dbName) is called
AddDbInfoNonPartitioned_Call(t, dbName) ==
    CacheCall(t, CallOf("addDbInfo", dbName, "", DbInfo_NonPartitioned,
                        TableInfo_NonPartitioned), "addDb_check")

\* addDbInfoPartitionedSphBox(dbName, nStripes, ...) is called
AddDbInfoPartitionedSphBox_Call(t, dbName, nStripes) ==
    CacheCall(t, CallOf("addDbInfo", dbName, "", DbInfo_Partitioned(nStripes),
                        TableInfo_NonPartitioned), "addDb_check")

\* if (checkIfContainsDb(dbName)) return STATUS_ERR_DB_EXISTS;  the check
\* takes _mutex and releases it on return
AddDbInfo_Check(t) ==
    /\ cpc[t] = "addDb_check"
    /\ IF MapContains(dbs, ccall[t].db)
         THEN CacheReturn(t, Returns(STATUS_ERR_DB_EXISTS))
         ELSE /\ cpc' = [cpc EXCEPT ![t] = "addDb_insert"]
              /\ UNCHANGED <<ccall, cres, cacheCalls>>
    /\ UNCHANGED dbs

\* lock_guard m(_mutex); _dbs.insert(pair(dbName, dbInfo)); return STATUS_OK;
AddDbInfo_Insert(t) ==
    /\ cpc[t] = "addDb_insert"
    /\ dbs' = MapInsert(dbs, ccall[t].db, ccall[t].dbInfo)
    /\ CacheReturn(t, Returns(STATUS_OK))

\* addTbInfoNonPartitioned / addTbInfoPartitionedSphBox is called
AddTbInfo_Call(t, dbName, tbName, tInfo) ==
    CacheCall(t, CallOf("addTbInfo", dbName, tbName, DbInfo_NonPartitioned, tInfo), "addTb")

\* under _mutex: find the database, DbInfo::addTable
AddTbInfo(t) ==
    /\ cpc[t] = "addTb"
    /\ LET c == ccall[t]
       IN IF ~MapContains(dbs, c.db)
            THEN /\ CacheReturn(t, Returns(STATUS_ERR_DB_DOES_NOT_EXIST))
                 /\ UNCHANGED dbs
            ELSE /\ CacheReturn(t, Returns(DbInfo_addTable(dbs[c.db], c.table)))
                 /\ dbs' = [dbs EXCEPT ![c.db].tables = MapInsert(@, c.table, c.tbInfo)]

\* getChunkLevel / checkIfTableIsChunked / checkIfTableIsSubChunked is called
Query_Call(t, fn, dbName, tbName) ==
    CacheCall(t, CallOf(fn, dbName, tbName, DbInfo_NonPartitioned,
                        TableInfo_NonPartitioned), fn)

\* MetadataCache::getChunkLevel(dbName, tableName): under _mutex, find the
\* database (throw if absent) and ask its DbInfo
GetChunkLevel(t) ==
    /\ cpc[t] = "getChunkLevel"
    /\ CacheReturn(t, IF ~MapContains(dbs, ccall[t].db)
                        THEN Throws("invalid_argument")
                        ELSE DbInfo_getChunkLevel(dbs[ccall[t].db], ccall[t].table))
    /\ UNCHANGED dbs

\* MetadataCache::checkIfTableIsChunked(dbName, tableName)
CheckIfTableIsChunked(t) ==
    /\ cpc[t] = "checkIfTableIsChunked"
    /\ CacheReturn(t, IF ~MapContains(dbs, ccall[t].db)
                        THEN Throws("invalid_argument")
                        ELSE DbInfo_checkIfTableIsChunked(dbs[ccall[t].db], ccall[t].table))
    /\ UNCHANGED dbs

\* MetadataCache::checkIfTableIsSubChunked(dbName, tableName)
CheckIfTableIsSubChunked(t) ==
    /\ cpc[t] = "checkIfTableIsSubChunked"
    /\ CacheReturn(t, IF ~MapContains(dbs, ccall[t].db)
                        THEN Throws("invalid_argument")
                        ELSE DbInfo_checkIfTableIsSubChunked(dbs[ccall[t].db],
                                                             ccall[t].table))
    /\ UNCHANGED dbs

QueryOps == {"getChunkLevel", "checkIfTableIsChunked", "checkIfTableIsSubChunked"}
TableInfos == {TableInfo_NonPartitioned} \cup {TableInfo_Partitioned(l) : l \in LogicalParts}

\* ==========================================================================
\* Generated result-table names (rproc/InfileMerger.cc, getTimeStampId):
\* sessions constructed one after the other with an empty target table
\* ==========================================================================

\* sessions constructed in a run
MaxSessions == 2
\* the largest tv_sec (below the wrap) and tv_usec the clock shows
MaxSec == 12
MaxUsec == 23

\* getTimeStampId keeps tv_sec % 10000
SecModulus == 10000

\* clock readings: early seconds and seconds one wrap later
Seconds == (0 .. MaxSec) \cup {SecModulus + s : s \in 0 .. 1}

\* operator<< of a non-negative integer: its decimal digits, no padding
RECURSIVE Decimal(_)
Decimal(n) ==
    LET DigitStr(d) ==
            CASE d = 0 -> "0" [] d = 1 -> "1" [] d = 2 -> "2" [] d = 3 -> "3"
              [] d = 4 -> "4" [] d = 5 -> "5" [] d = 6 -> "6" [] d = 7 -> "7"
              [] d = 8 -> "8" [] d = 9 -> "9"
    IN IF n < 10 THEN DigitStr(n) ELSE Decimal(n \div 10) \o DigitStr(n % 10)

\* s << (now.tv_sec % 10000) << now.tv_usec;
getTimeStampId(sec, usec) == Decimal(sec % SecModulus) \o Decimal(usec)

\* boost::format("%1%.result_%2%") % _config.targetDb % getTimeStampId(),
\* _config.targetDb being "qservResult"
GeneratedName(sec, usec) == "qservResult" \o ".result_" \o getTimeStampId(sec, usec)

VARIABLES
    sessions     \* the sessions constructed so far: timestamp and target table

timeVars == <<sessions>>

TimeInit == sessions = <<>>

\* InfileMerger::InfileMerger with an empty _config.targetTable, at clock
\* reading (sec, usec), later than every earlier construction
NewSession(sec, usec) ==
    /\ Len(sessions) < MaxSessions
    /\ \A i \in DOMAIN sessions :
          sec > sessions[i].sec \/ (sec = sessions[i].sec /\ usec > sessions[i].usec)
    /\ sessions' = Append(sessions, [sec |-> sec, usec |-> usec,
                                     targetTable |-> GeneratedName(sec, usec)])

\* ==========================================================================
(***************************************************************************)
(* Model of the configuration-store client of qserv's css module:          *)
(*   core/modules/css/cssInterfaceImplZoo.cc                               *)
(* One CssInterfaceImplZoo, the store behind its handle and one caller     *)
(* that invokes create, exists, get, getChildren and deleteNode.  The      *)
(* store's return codes (ZOK, ZNONODE, ...) are written as their names.    *)
(***************************************************************************)

\* calls made on the client in a run
MaxZooCalls == 3

\* keys the caller uses
ZooKeys == {"/db", "/db/t"}

\* the node above a key; "/" always exists
ZooParent(key) == IF key = "/db/t" THEN "/db" ELSE "/"

\* what can go wrong between the client and the store during one call
\* (ZOK: nothing)
ZooFaults == {"ZOK", "ZCONNECTIONLOSS", "ZNOAUTH", "ZSYSTEMERROR"}

VARIABLES
    znodes,      \* the store: existing keys and their values
    zcall,       \* the last operation called on the client
    zrc,         \* the code the store returned to it
    zres,        \* how the operation ended
    zooCalls     \* operations called so far

zooVars == <<znodes, zcall, zrc, zres, zooCalls>>

\* CssInterfaceImplZoo(connInfo, verbose): an empty store, nothing called
ZooInit ==
    /\ znodes = <<>>
    /\ zcall = [fn |-> "none", key |-> ""]
    /\ zrc = "ZOK"
    /\ zres = Pending
    /\ zooCalls = 0

ZooHas(key) == key = "/" \/ key \in DOMAIN znodes

\* zoo_create
zoo_create(key, fault) ==
    IF fault # "ZOK" THEN fault
    ELSE IF ~ZooHas(ZooParent(key)) THEN "ZNONODE"
    ELSE IF ZooHas(key) THEN "ZNODEEXISTS"
    ELSE "ZOK"

\* zoo_exists, zoo_get, zoo_get_children
zoo_read(key, fault) ==
    IF fault # "ZOK" THEN fault
    ELSE IF ~ZooHas(key) THEN "ZNONODE"
    ELSE "ZOK"

\* zoo_delete
zoo_delete(key, fault) ==
    IF fault # "ZOK" THEN fault
    ELSE IF ~ZooHas(key) THEN "ZNONODE"
    ELSE IF \E k \in DOMAIN znodes : ZooParent(k) = key THEN "ZNOTEMPTY"
    ELSE "ZOK"

\* the exception zooFailure(rc, fName, extraMsg) throws
zooFailure(rc, fName, extraMsg) ==
    IF rc = "ZNONODE" THEN [type |-> "CssException_KeyDoesNotExist", msg |-> extraMsg]
    ELSE IF rc = "ZCONNECTIONLOSS" THEN [type |-> "CssException_ConnFailure", msg |-> ""]
    ELSE IF rc = "ZNOAUTH" THEN [type |-> "CssException_AuthFailure", msg |-> ""]
    ELSE [type |-> "CssException_InternalRunTimeError",
          msg |-> "*** CssInterfaceImplZoo::" \o fName \o "(). Zookeeper error #"
                  \o rc \o "."
                  \o (IF extraMsg # "" THEN " (" \o extraMsg \o ")" ELSE "")]

\* the client is called: fn(key) got rc from the store and ended with res
ZooCalled(fn, key, rc, res) ==
    /\ zooCalls < MaxZooCalls
    /\ zooCalls' = zooCalls + 1
    /\ zcall' = [fn |-> fn, key |-> key]
    /\ zrc' = rc
    /\ zres' = res

\* create(key, value)
Create(key, value, fault) ==
    LET rc == zoo_create(key, fault) IN
    /\ ZooCalled("create", key, rc,
                 IF rc # "ZOK" THEN Throws(zooFailure(rc, "create", ""))
                 ELSE Returns("void"))
    /\ znodes' = IF rc = "ZOK"
                 THEN [k \in DOMAIN znodes \cup {key} |->
                          IF k = key THEN value ELSE znodes[k]]
                 ELSE znodes

\* exists(key)
Exists(key, fault) ==
    LET rc == zoo_read(key, fault) IN
    /\ ZooCalled("exists", key, rc,
                 IF rc = "ZOK" THEN Returns(TRUE)
                 ELSE IF rc = "ZNONODE" THEN Returns(FALSE)
                 ELSE Throws(zooFailure(rc, "exists", key)))
    /\ UNCHANGED znodes

\* get(key): "if (rc=ZOK)" stores ZOK (zero) in rc and tests it, so
\* zooFailure is not called; buffer is returned, all zero unless the store
\* filled it
Get(key, fault) ==
    LET rc == zoo_read(key, fault)
        buffer == IF rc = "ZOK" THEN znodes[key] ELSE ""
        rcAssigned == "ZOK"
    IN
    /\ ZooCalled("get", key, rc,
                 IF rcAssigned # "ZOK" THEN Throws(zooFailure(rcAssigned, "get", key))
                 ELSE Returns(buffer))
    /\ UNCHANGED znodes

\* getChildren(key): the names of the nodes below key
GetChildren(key, fault) ==
    LET rc == zoo_read(key, fault)
        v == IF \E k \in DOMAIN znodes : ZooParent(k) = key
             THEN <<IF key = "/" THEN "db" ELSE "t">>
             ELSE <<>>
    IN
    /\ ZooCalled("getChildren", key, rc,
                 IF rc # "ZOK" THEN Throws(zooFailure(rc, "getChildren", key))
                 ELSE Returns(v))
    /\ UNCHANGED znodes

\* deleteNode(key)
DeleteNode(key, fault) ==
    LET rc == zoo_delete(key, fault) IN
    /\ ZooCalled("deleteNode", key, rc,
                 IF rc # "ZOK" THEN Throws(zooFailure(rc, "deleteNode", key))
                 ELSE Returns("void"))
    /\ znodes' = IF rc = "ZOK"
                 THEN [k \in DOMAIN znodes \ {key} |-> znodes[k]]
                 ELSE znodes

\* ------------------------------------------------------------------- spec
PoolNext ==
    \/ \E t \in Threads, db \in DbArgs, table \in TableArgs : Get_Call(t, db, table) /\ UNCHANGED <<vars, cacheVars, timeVars, zooVars>>
    \/ \E t \in Threads : Get_Lookup(t) /\ UNCHANGED <<vars, cacheVars, timeVars, zooVars>>
    \/ \E t \in Threads : Get_TableParams(t) /\ UNCHANGED <<vars, cacheVars, timeVars, zooVars>>
    \/ \E t \in Threads : Get_MatchFirst(t) /\ UNCHANGED <<vars, cacheVars, timeVars, zooVars>>
    \/ \E t \in Threads : Get_MatchSecond(t) /\ UNCHANGED <<vars, cacheVars, timeVars, zooVars>>
    \/ \E t \in Threads : Get_DirCols(t) /\ UNCHANGED <<vars, cacheVars, timeVars, zooVars>>
    \/ \E t \in Threads : Get_DirStriping(t) /\ UNCHANGED <<vars, cacheVars, timeVars, zooVars>>
    \/ \E t \in Threads : Get_ChildDirector(t) /\ UNCHANGED <<vars, cacheVars, timeVars, zooVars>>
    \/ \E t \in Threads : Insert_UpperBound(t) /\ UNCHANGED <<vars, cacheVars, timeVars, zooVars>>
    \/ \E t \in Threads : Insert_Insert(t) /\ UNCHANGED <<vars, cacheVars, timeVars, zooVars>>
    \/ StoreUpdate /\ UNCHANGED <<vars, cacheVars, timeVars, zooVars>>

CacheNext ==
    \/ \E t \in Threads, d \in CacheDbNames :
          AddDbInfoNonPartitioned_Call(t, d) /\ UNCHANGED <<vars, poolVars, timeVars, zooVars>>
    \/ \E t \in Threads, d \in CacheDbNames, n \in StripeCounts :
          AddDbInfoPartitionedSphBox_Call(t, d, n) /\ UNCHANGED <<vars, poolVars, timeVars, zooVars>>
    \/ \E t \in Threads : AddDbInfo_Check(t) /\ UNCHANGED <<vars, poolVars, timeVars, zooVars>>
    \/ \E t \in Threads : AddDbInfo_Insert(t) /\ UNCHANGED <<vars, poolVars, timeVars, zooVars>>
    \/ \E t \in Threads, d \in CacheDbNames, n \in CacheTableNames, i \in TableInfos :
          AddTbInfo_Call(t, d, n, i) /\ UNCHANGED <<vars, poolVars, timeVars, zooVars>>
    \/ \E t \in Threads : AddTbInfo(t) /\ UNCHANGED <<vars, poolVars, timeVars, zooVars>>
    \/ \E t \in Threads, o \in QueryOps, d \in CacheDbNames, n \in CacheTableNames :
          Query_Call(t, o, d, n) /\ UNCHANGED <<vars, poolVars, timeVars, zooVars>>
    \/ \E t \in Threads : GetChunkLevel(t) /\ UNCHANGED <<vars, poolVars, timeVars, zooVars>>
    \/ \E t \in Threads : CheckIfTableIsChunked(t) /\ UNCHANGED <<vars, poolVars, timeVars, zooVars>>
    \/ \E t \in Threads : CheckIfTableIsSubChunked(t) /\ UNCHANGED <<vars, poolVars, timeVars, zooVars>>

TimeNext ==
    \/ \E sec \in Seconds, usec \in 0 .. MaxUsec :
          NewSession(sec, usec) /\ UNCHANGED <<vars, poolVars, cacheVars, zooVars>>

ZooNext ==
    \/ \E key \in ZooKeys, value \in {"", "v"}, fault \in ZooFaults :
          Create(key, value, fault) /\ UNCHANGED <<vars, poolVars, cacheVars, timeVars>>
    \/ \E key \in ZooKeys, fault \in ZooFaults :
          Exists(key, fault) /\ UNCHANGED <<vars, poolVars, cacheVars, timeVars>>
    \/ \E key \in ZooKeys, fault \in ZooFaults :
          Get(key, fault) /\ UNCHANGED <<vars, poolVars, cacheVars, timeVars>>
    \/ \E key \in ZooKeys, fault \in ZooFaults :
          GetChildren(key, fault) /\ UNCHANGED <<vars, poolVars, cacheVars, timeVars>>
    \/ \E key \in ZooKeys, fault \in ZooFaults :
          DeleteNode(key, fault) /\ UNCHANGED <<vars, poolVars, cacheVars, timeVars>>

Next ==
    \/ \E t \in Threads, b \in Buffers : Merge_Enter(t, b) /\ UNCHANGED <<poolVars, cacheVars, timeVars, zooVars>>
    \/ \E t \in Threads : Merge_NeedHeader(t) /\ UNCHANGED <<poolVars, cacheVars, timeVars, zooVars>>
    \/ \E t \in Threads : FetchHeader_Header(t) /\ UNCHANGED <<poolVars, cacheVars, timeVars, zooVars>>
    \/ \E t \in Threads : FetchHeader_Remain(t) /\ UNCHANGED <<poolVars, cacheVars, timeVars, zooVars>>
    \/ \E t \in Threads : FetchHeader_Result(t) /\ UNCHANGED <<poolVars, cacheVars, timeVars, zooVars>>
    \/ \E t \in Threads : SetupTable_Lock(t) /\ UNCHANGED <<poolVars, cacheVars, timeVars, zooVars>>
    \/ \E t \in Threads : ApplySqlLocal_Connect(t) /\ UNCHANGED <<poolVars, cacheVars, timeVars, zooVars>>
    \/ \E t \in Threads : ApplySqlLocal_Run(t) /\ UNCHANGED <<poolVars, cacheVars, timeVars, zooVars>>
    \/ \E t \in Threads : ApplySqlLocal_Done(t) /\ UNCHANGED <<poolVars, cacheVars, timeVars, zooVars>>
    \/ \E t \in Threads : SetupTable_Fail(t) /\ UNCHANGED <<poolVars, cacheVars, timeVars, zooVars>>
    \/ \E t \in Threads : SetupTable_Ok(t) /\ UNCHANGED <<poolVars, cacheVars, timeVars, zooVars>>
    \/ \E t \in Threads : FetchHeader_CheckError(t) /\ UNCHANGED <<poolVars, cacheVars, timeVars, zooVars>>
    \/ \E t \in Threads : FetchHeader_Md5(t) /\ UNCHANGED <<poolVars, cacheVars, timeVars, zooVars>>
    \/ \E t \in Threads : Action_Construct(t) /\ UNCHANGED <<poolVars, cacheVars, timeVars, zooVars>>
    \/ \E t \in Threads : IncrementInflight_Unlock(t) /\ UNCHANGED <<poolVars, cacheVars, timeVars, zooVars>>
    \/ \E t \in Threads : Action_Run(t) /\ UNCHANGED <<poolVars, cacheVars, timeVars, zooVars>>
    \/ \E t \in Threads : Action_LoadDone(t) /\ UNCHANGED <<poolVars, cacheVars, timeVars, zooVars>>
    \/ \E t \in Threads : Action_Assert(t) /\ UNCHANGED <<poolVars, cacheVars, timeVars, zooVars>>
    \/ \E t \in Threads : Action_Join(t) /\ UNCHANGED <<poolVars, cacheVars, timeVars, zooVars>>
    \/ \E t \in Threads : Finalize(t) /\ UNCHANGED <<poolVars, cacheVars, timeVars, zooVars>>
    \/ \E t \in Threads : NullDeref(t) /\ UNCHANGED <<poolVars, cacheVars, timeVars, zooVars>>
    \/ ConnectionLost /\ UNCHANGED <<poolVars, cacheVars, timeVars, zooVars>>

\* a merger session and a metadata pool, both as constructed
SystemInit == Init /\ PoolInit /\ CacheInit /\ TimeInit /\ ZooInit

\* the merger session and its callers, next to a pool on which nothing is called
Spec == SystemInit /\ [][Next]_<<vars, poolVars, cacheVars, timeVars, zooVars>>

\* the pool and its callers, next to a merger session on which nothing is called
PoolSystemInit ==
    SystemInit /\ needsFixup = FALSE /\ needHeader = TRUE /\ targetTable = "target"

PoolSpec == PoolSystemInit /\ [][PoolNext]_<<vars, poolVars, cacheVars, timeVars, zooVars>>

\* the metadata cache and its callers, next to a merger session and a pool on
\* which nothing is called
CacheSpec == PoolSystemInit /\ [][CacheNext]_<<vars, poolVars, cacheVars, timeVars, zooVars>>

\* sessions constructed one after the other, each with a generated target table
TimeSpec == PoolSystemInit /\ [][TimeNext]_<<vars, poolVars, cacheVars, timeVars, zooVars>>

\* the configuration-store client and its caller, next to the other components
\* on which nothing is called
ZooSpec == PoolSystemInit /\ [][ZooNext]_<<vars, poolVars, cacheVars, timeVars, zooVars>>


\* ------------------------------------------------------------ properties
Creates == {i \in DOMAIN sqlLog : sqlLog[i].kind = "CREATE"}
Loads == {i \in DOMAIN sqlLog : sqlLog[i].kind = "LOAD"}
Terminal == {"Done", "Failed"}
Quiescent == \A t \in Threads : pc[t] = Idle

\* the parts of a buffer that holds one whole frame
FrameHeader(f) == SubSeq(f, 2, 1 + f[1])
FramePayload(f) == SubSeq(f, 2 + f[1], Len(f))
FrameLength(f) == 1 + f[1] + HeaderSize(FrameHeader(f))
\* f is a whole frame whose header digest differs from the digest of its payload
DigestMismatch(f) ==
    /\ Len(f) >= 1 /\ Len(f) >= 1 + f[1]
    /\ HeaderParses(FrameHeader(f))
    /\ Len(f) = FrameLength(f)
    /\ HeaderMd5(FrameHeader(f)) # getMd5(FramePayload(f))

\* C1: at most one CREATE TABLE statement, failed or not, reaches the SQL
\* engine in one session, whatever the interleaving of the merge() calls.
C1_AtMostOneCreate == Cardinality(Creates) <= 1

\* C2: a call made once an error is recorded returns at once with an error
\* (merge: -1, finalize: false) and changes nothing of the session: nothing
\* is decoded, no statement is issued, no action is constructed, the recorded
\* error stays as it is.
C2_ErrorShortCircuits ==
    [][(errorCode # "NONE" /\ callsMade' = callsMade + 1) =>
         /\ UNCHANGED <<session, mutex, sqlLog, actions, crashed, pc, buf, phSize, payload>>
         /\ \E t \in Threads :
              /\ pc[t] = Idle
              /\ \/ op'[t] = "merge" /\ ret'[t] = OffT(-1)
                 \/ op'[t] = "finalize" /\ ret'[t] = Bool(FALSE)
              /\ \A u \in Threads \ {t} : op'[u] = op[u] /\ ret'[u] = ret[u]]_vars

\* a merge() call has been turned away with -1 by a recorded error
C2_Witness ==
    \E t \in Threads : errorCode # "NONE" /\ pc[t] = Idle /\ op[t] = "merge" /\ ret[t] = OffT(-1)

\* C3: of a frame whose header digest does not match its payload nothing
\* reaches the SQL engine: no CREATE TABLE is issued for it, no load either.
C3_Md5MismatchNoSql == \A i \in DOMAIN sqlLog : ~DigestMismatch(sqlLog[i].frame)

\* C4: when every call so far was merge() of one well-formed frame and all
\* have returned, one load action was constructed per call (stated of the
\* sessions whose first frame was dispatched: the later frames are too).
C4_OneActionPerFrame ==
    (onlyFrames /\ Quiescent /\ Len(actions) >= 1) => Len(actions) = callsMade

\* C5: a merge() call that was handed one whole well-formed frame and
\* dispatched its load action returns the frame's length 1 + H + payload_size.
C5_ReturnsFrameLength ==
    [][\A t \in Threads :
         (pc[t] # Idle /\ pc'[t] = Idle /\ buf[t] \in WellFormedFrames /\ dispatched[t])
           => ret'[t] = OffT(FrameLength(buf[t]))]_vars

\* a buffer that holds the length byte and the whole header of a frame but
\* not yet its whole payload
PayloadMissing(b) == b \in ShortBuffers /\ Len(b) >= 1 /\ Len(b) >= 1 + b[1]

\* C6: no step of a merge() call whose buffer stops short of the frame's
\* payload records an error on the session.
C6_ShortBufferNoError ==
    [][\A t \in Threads :
         (pc[t] # Idle /\ pc'[t] # pc[t] /\ PayloadMissing(buf[t]))
           => errorCode' = errorCode]_vars

\* C7: every bulk-load statement in the engine's log comes after a CREATE
\* TABLE of the session that has completed successfully.
C7_CreateBeforeLoad ==
    \A i \in Loads : \E j \in Creates : j < i /\ sqlLog[j].state = "ok"

\* a load issued by one thread into the table another thread created
C7_Witness ==
    \E i \in Loads, j \in Creates : sqlLog[i].by # sqlLog[j].by

\* C8: the in-flight counter counts the actions that have not terminated:
\* each terminal action has been signalled done once, so with every action
\* terminated the counter is zero.
C8_InflightCountsRunning ==
    numInflight = Cardinality({i \in DOMAIN actions : actions[i].state \notin Terminal})

\* C9: finalize() returns only when the in-flight counter is zero.
C9_FinalizeWaitsForInflight ==
    [][(\E t \in Threads : Finalize(t)) => numInflight = 0]_vars

\* C10: finalize() on a session without error, without running loads and
\* without fixup returns true, issues no SQL and leaves isFinished() true.
C10_FinalizeNoFixupSucceeds ==
    [][\A t \in Threads :
         (/\ Finalize(t) /\ errorCode = "NONE" /\ ~needsFixup /\ Quiescent
          /\ \A i \in DOMAIN actions : actions[i].state \in Terminal)
           => (ret'[t] = Bool(TRUE) /\ IsFinished' /\ sqlLog' = sqlLog)]_vars

\* C11: finalize() on a session that needs a fixup (and is error-free, with
\* no call in progress) issues the projection statement CREATE TABLE IF NOT
\* EXISTS <target> SELECT ... FROM <mergeTable> followed by the DROP of the
\* merge table, and returns ok.
C11_FinalizeFixupProjects ==
    [][\A t \in Threads :
          (Finalize(t) /\ needsFixup /\ errorCode = "NONE" /\ Quiescent)
          => /\ Len(sqlLog') = Len(sqlLog) + 2
             /\ sqlLog'[Len(sqlLog) + 1].kind = "CREATE_FIX"
             /\ sqlLog'[Len(sqlLog) + 2].kind = "DROP"
             /\ ret'[t] = Bool(TRUE)]_vars

\* C12: finalize() is idempotent: a finalize() call made when an earlier
\* finalize() result is on record returns that same result and issues no SQL.
C12_FinalizeIdempotent ==
    [][\A t, u \in Threads :
          (Finalize(t) /\ op[u] = "finalize" /\ pc[u] = Idle /\ ret[u] # NoRet)
          => (ret'[t] = ret[u] /\ sqlLog' = sqlLog)]_vars

\* two finalize() calls were made and both results are on record
C12_Witness ==
    /\ callsMade = 2
    /\ \A t \in Threads : op[t] = "finalize" /\ ret[t] = Bool(FinalizeResult)

\* the merge() call of thread t issued a CREATE TABLE that the engine failed
CreateFailedIn(t) ==
    \E i \in Creates : sqlLog[i].by = t /\ sqlLog[i].state = "failed"

\* C20: the merge() call in which the CREATE TABLE failed leaves the session
\* finished and returns an error (-1), not a count of consumed bytes.
C20_CreateFailureReturnsError ==
    [][\A t \in Threads :
          (pc[t] = "fh_err" /\ pc'[t] = Idle /\ CreateFailedIn(t))
          => (IsFinished' /\ ret'[t] = OffT(-1))]_vars

ConnMutex(conn) == IF conn = "mysqlConn" THEN "mysql" ELSE "sql"

Acquires(t) ==
    CASE pc[t] = "st_lock" -> "createTable"
      [] pc[t] = "sql_lock" -> "sql"
      [] pc[t] = "act_new" -> "inflight"
      [] pc[t] = "act_run" -> "mysql"
      [] OTHER -> "none"
Waiting(t) == Acquires(t) # "none" /\ mutex[Acquires(t)] # "free"

\* the places of a call at which each mutex is held
HeldAt(m) ==
    CASE m = "createTable" -> {"sql_lock", "sql_run", "sql_done", "st_fail", "st_ok"}
      [] m = "sql" -> {"sql_run", "sql_done"}
      [] m = "mysql" -> {"load_done"}
      [] m = "inflight" -> {"act_inc"}

\* C23: the in-flight counter has a mutex of its own; its holder holds no
\* other mutex and waits for none, so a counter update never waits for a
\* running statement; every held mutex is held by a thread inside the matching
\* critical section, and the holder of a mutex some thread waits for is
\* itself not waiting: no cycle of waiting threads, no deadlock.
C23_NoLockCycle ==
    /\ \A t \in Threads :
          mutex["inflight"] = t =>
             /\ pc[t] = "act_inc"
             /\ \A m \in DOMAIN mutex \ {"inflight"} : mutex[m] # t
             /\ \A i \in DOMAIN sqlLog : sqlLog[i].state = "running" => sqlLog[i].by # t
    /\ \A m \in DOMAIN mutex :
          mutex[m] # "free" => pc[mutex[m]] \in HeldAt(m)
    /\ \A t \in Threads :
          Waiting(t) => ~Waiting(mutex[Acquires(t)])

\* one thread waits at the table mutex while the other runs the CREATE under it
C23_Witness ==
    \E t, u \in Threads :
        /\ t # u /\ Waiting(t) /\ Acquires(t) = "createTable"
        /\ mutex["createTable"] = u /\ mutex["sql"] = u
        /\ \E i \in Creates : sqlLog[i].by = u /\ sqlLog[i].state = "running"

\* the buffer holds the length byte and the whole header envelope
HeaderPresent(b) == Len(b) >= 1 /\ Len(b) >= 1 + b[1]

\* the session's envelope still holds the header this call's buffer carries
OwnHeader(t) ==
    /\ HeaderParses(FrameHeader(buf[t]))
    /\ msgs.size = HeaderSize(FrameHeader(buf[t]))
    /\ msgs.md5 = HeaderMd5(FrameHeader(buf[t]))

\* the first failure cause a call meets, from its input and from the outcome
\* of the CREATE TABLE
Cause(t) ==
    LET b == buf[t]
        h == FrameHeader(b)
        remain == Len(b) - 1 - b[1]
        body == SubSeq(b, 2 + b[1], 1 + b[1] + HeaderSize(h))
    IN  IF ~HeaderParses(h) THEN "HEADER_IMPORT"
        ELSE IF remain < HeaderSize(h) THEN "HEADER_OVERFLOW"
        ELSE IF ~ResultParses(body) THEN "RESULT_IMPORT"
        ELSE IF pc[t] = "st_fail" THEN "CREATE_TABLE"
        ELSE IF HeaderMd5(h) # getMd5(body) THEN "RESULT_MD5"
        ELSE "NONE"

\* the steps of _fetchHeader and _setupTable that decide on a failure cause
DecidingSteps == {"fh_hdr", "fh_remain", "fh_result", "st_fail", "fh_md5"}

\* C24: a deciding step of a call whose buffer holds a whole header, and whose
\* header is the one in the session's envelope, records the kind of the cause
\* it meets and no other: HEADER_IMPORT, HEADER_OVERFLOW, RESULT_IMPORT,
\* CREATE_TABLE or RESULT_MD5; with no cause it records nothing.
C24_CauseKinds ==
    [][\A t \in Threads :
          (/\ pc[t] \in DecidingSteps /\ pc'[t] # pc[t]
           /\ HeaderPresent(buf[t])
           /\ pc[t] # "fh_hdr" => OwnHeader(t))
          => /\ errorCode' # errorCode => errorCode' = Cause(t)
             /\ (pc'[t] = Idle /\ Cause(t) # "NONE") => errorCode' = Cause(t)
             /\ (pc[t] = "st_fail") => errorCode' = "CREATE_TABLE"]_vars

\* a call was ended by a payload that did not decode
C24_Witness ==
    \E t \in Threads :
        /\ errorCode = "RESULT_IMPORT" /\ ret[t] = Thrown /\ pc[t] = Idle

\* C25: applying a statement on a lost connection sends nothing to the
\* engine, does not reconnect, and reports MYSQLCONNECT on the session.
C25_LostConnectionReported ==
    [][\A t \in Threads :
          (pc[t] = "act_run" /\ pc'[t] # pc[t] /\ ~mysqlConnected)
          => (sqlLog' = sqlLog /\ mysqlConnected' = FALSE
              /\ errorStatus' = "MYSQLCONNECT")]_vars

\* the places of _fetchHeader and _setupTable whose next statement reads
\* through _msgs
ReadsMsgs == {"fh_hdr", "fh_remain", "fh_result", "sql_lock", "fh_md5"}

\* C33: a session that still expects a header and has no error holds its
\* envelope; once a frame has been handed to a load action the facade holds
\* none; and no merge() call is about to read through _msgs when the facade
\* no longer owns an envelope.
C33_EnvelopeOwnership ==
    /\ (needHeader /\ errorCode = "NONE") => msgsOwned
    /\ actions # <<>> => ~msgsOwned
    /\ \A t \in Threads : (~crashed /\ pc[t] \in ReadsMsgs) => msgsOwned

\* C34: constructing a load action reads the envelope through a handle that
\* still owns it, so the construction always completes, and it adds one
\* action and exactly one to the in-flight counter.
C34_ActionConstruction ==
    [][\A t \in Threads :
          (pc[t] = "act_new" /\ (pc'[t] # pc[t] \/ crashed' # crashed))
          => /\ ~crashed'
             /\ Len(actions') = Len(actions) + 1
             /\ numInflight' = numInflight + 1]_vars

\* C35: a call about to read the length byte has a buffer of at least one
\* byte, a call about to decode the header envelope has the whole envelope
\* in its buffer, and a call about to decode the payload has the whole payload.
C35_NoReadPastLength ==
    \A t \in Threads :
        /\ pc[t] = "fh_hdr" => (Len(buf[t]) >= 1 /\ Len(buf[t]) >= 1 + buf[t][1])
        /\ pc[t] = "fh_result" => Len(buf[t]) >= 1 + phSize[t] + msgs.size

\* ------------------------------------------------- properties of the pool
NoDuplicates(v) ==
    \A i, j \in DOMAIN v : (v[i].db = v[j].db /\ v[i].table = v[j].table) => i = j
PoolKeys(v) == {<<v[i].db, v[i].table>> : i \in DOMAIN v}
DirectorInPool(id) ==
    \E j \in DOMAIN pool : pool[j].id = id /\ pool[j].kind = DIRECTOR
\* thread t's top-level call ends in this step
GetEnds(t) == stack[t] # <<>> /\ stack'[t] = <<>>
IsMatchInStore(table) == table \in StoredTables /\ Catalog[table].isMatchTable

\* C13: a get() call for a match table (made with no other call in
\* progress) that raises InvalidTable leaves the pool exactly as it was when
\* the call began.
C13_InvalidTableLeavesPool ==
    [][\A t \in Threads :
          (/\ oneAtATime /\ GetEnds(t) /\ gres'[t].outcome = "InvalidTable"
           /\ IsMatchInStore(gcall[t].table))
          => pool' = poolAtCall[t]]_poolVars

\* C14: as long as get() calls are made one at a time, the pool holds at most
\* one descriptor per (db, name).
C14_SequentialNoDuplicates == oneAtATime => NoDuplicates(pool)

\* two calls made one after the other, the first of which resolved a match
\* table and its two directors
C14_Witness ==
    /\ oneAtATime /\ getsMade = 2 /\ \A t \in Threads : stack[t] = <<>>
    /\ \E i \in DOMAIN pool : pool[i].kind = MATCH
    /\ \A t \in Threads : gres[t].outcome = "desc"

\* C15: whatever the interleaving of concurrent get() calls, the pool holds
\* at most one descriptor per (db, name).
C15_ConcurrentNoDuplicates == NoDuplicates(pool)

\* C16: the director of every Child descriptor and both directors of every
\* Match descriptor are Director descriptors of the same pool.
C16_DirectorRefsInPool ==
    \A i \in DOMAIN pool :
        /\ pool[i].kind = CHILD => DirectorInPool(pool[i].dir1)
        /\ pool[i].kind = MATCH =>
              DirectorInPool(pool[i].dir1) /\ DirectorInPool(pool[i].dir2)

\* the pool holds a Child and a Match descriptor
C16_Witness ==
    /\ \E i \in DOMAIN pool : pool[i].kind = CHILD
    /\ \E i \in DOMAIN pool : pool[i].kind = MATCH

\* C17: every Match descriptor of the pool has two directors with the same
\* partitioning id and two non-empty, distinct foreign-key columns; a
\* finished get() for a match table whose two column names are equal or
\* empty in the store has raised InvalidTable.
C17_MatchWellFormed ==
    /\ \A i \in DOMAIN pool :
          pool[i].kind = MATCH =>
            /\ DirectorInPool(pool[i].dir1) /\ DirectorInPool(pool[i].dir2)
            /\ Deref(pool, pool[i].dir1).partitioningId
                 = Deref(pool, pool[i].dir2).partitioningId
            /\ pool[i].fk1 # "" /\ pool[i].fk2 # "" /\ pool[i].fk1 # pool[i].fk2
    /\ \A t \in Threads :
          (/\ stack[t] = <<>> /\ gres[t].outcome # "none"
           /\ IsMatchInStore(gcall[t].table)
           /\ LET m == Catalog[gcall[t].table]
              IN m.dirColName1 = "" \/ m.dirColName2 = "" \/ m.dirColName1 = m.dirColName2)
          => gres[t].outcome = "InvalidTable"

\* a Match descriptor is pooled and a call for a match table was refused
C17_Witness ==
    /\ \E i \in DOMAIN pool : pool[i].kind = MATCH
    /\ \E t \in Threads : /\ IsMatchInStore(gcall[t].table)
                           /\ gres[t].outcome = "InvalidTable"

\* C18: with calls made one at a time, a get() that returns a descriptor for
\* a table an earlier call returned a descriptor for returns that same
\* descriptor and leaves the pool as it found it; a get() that resolves a
\* match table on an empty pool leaves exactly the match table and its two
\* directors in the pool.
C18_GetIdempotent ==
    [][\A t \in Threads :
          (oneAtATime /\ GetEnds(t) /\ gres'[t].outcome = "desc")
          => /\ \A r \in returned :
                   (r.db = DefaultDb /\ r.table = gcall[t].table)
                   => (gres'[t].id = r.id /\ pool' = poolAtCall[t])
             /\ (poolAtCall[t] = <<>> /\ IsMatchInStore(gcall[t].table))
                   => /\ Len(pool') = Cardinality(PoolKeys(pool'))
                      /\ PoolKeys(pool') =
                           {<<DefaultDb, gcall[t].table>>,
                            <<DefaultDb, Catalog[gcall[t].table].dirTable1>>,
                            <<DefaultDb, Catalog[gcall[t].table].dirTable2>>}]_poolVars

\* two calls for the same match table, one after the other, gave the same descriptor
C18_Witness ==
    /\ oneAtATime
    /\ \E t, u \in Threads :
          /\ t # u /\ gcall[t].table = gcall[u].table /\ IsMatchInStore(gcall[t].table)
          /\ gres[t].outcome = "desc" /\ gres[u] = gres[t]

\* C19: no pool lookup and no store query is made with the empty database
\* name, and no descriptor carries it.
C19_DefaultDbEverywhere ==
    /\ "" \notin lookups
    /\ \A q \in queries : q.db # ""
    /\ \A i \in DOMAIN pool : pool[i].db # ""

\* the roles the store's parameters give a table
IsUnpartitionedInStore(table) == table \in StoredTables /\ Catalog[table].chunkLevel = 0
IsDirectorRole(table) ==
    /\ table \in StoredTables
    /\ Catalog[table].chunkLevel # 0 /\ ~Catalog[table].isMatchTable
    /\ Catalog[table].dirTable \in {"", table}
IsChildRole(table) ==
    /\ table \in StoredTables
    /\ Catalog[table].chunkLevel # 0 /\ ~Catalog[table].isMatchTable
    /\ Catalog[table].dirTable \notin {"", table}
\* thread t's latest top-level call has ended
Finished(t) == stack[t] = <<>> /\ gres[t].outcome # "none"

\* C27: a get() for a table whose chunkLevel in the store is 0 ends
\* returning no descriptor, raises nothing and leaves the pool as it is,
\* whatever the table's other parameters are.
C27_UnpartitionedIsAbsent ==
    [][\A t \in Threads :
          (GetEnds(t) /\ IsUnpartitionedInStore(gcall[t].table))
          => /\ gres'[t] = [outcome |-> "null", id |-> 0]
             /\ pool' = pool
             /\ oneAtATime => pool' = poolAtCall[t]]_poolVars

\* a call for an unpartitioned table has ended on a pool that holds descriptors
C27_Witness ==
    \E t \in Threads :
        /\ Finished(t) /\ IsUnpartitionedInStore(gcall[t].table)
        /\ gres[t].outcome = "null" /\ pool # <<>>

\* chunkLevel 2 and three non-empty, pairwise distinct partition columns
GoodDirector(table) ==
    LET v == Catalog[table].partitionCols
    IN  /\ Catalog[table].chunkLevel = 2
        /\ Len(v) = 3
        /\ v[1] # "" /\ v[2] # "" /\ v[3] # ""
        /\ v[1] # v[2] /\ v[2] # v[3] /\ v[1] # v[3]

\* C28: with calls made one at a time, a finished get() for a partitioned,
\* non-match table whose dirTable is empty or its own name has returned a descriptor only if chunkLevel is 2
\* and the partition columns are three, non-empty and distinct; the
\* descriptor is a Director with lon, lat, pk the 1st, 2nd, 3rd column and
\* (the store unchanged) the database's partitioning id.  With another chunk
\* level, or with columns the store returned that are not such, it has
\* raised InvalidTable; with chunkLevel 2 and good columns returned by the
\* store it has returned the descriptor.
C28_DirectorResolution ==
    \A t \in Threads :
        (oneAtATime /\ Finished(t) /\ IsDirectorRole(gcall[t].table)) =>
          LET table == gcall[t].table
              v == Catalog[table].partitionCols
          IN  /\ gres[t].outcome = "desc" =>
                   /\ GoodDirector(table)
                   /\ LET d == Deref(pool, gres[t].id)
                      IN  /\ d.kind = DIRECTOR /\ d.db = DefaultDb /\ d.table = table
                          /\ d.lon = v[1] /\ d.lat = v[2] /\ d.pk = v[3]
                          /\ storeFixed => d.partitioningId = striping
              /\ Catalog[table].chunkLevel # 2 => gres[t].outcome = "InvalidTable"
              /\ (gcall[t].dbArg = DefaultDb /\ ~GoodDirector(table))
                   => gres[t].outcome = "InvalidTable"
              /\ (gcall[t].dbArg = DefaultDb /\ GoodDirector(table))
                   => gres[t].outcome = "desc"

\* one director was resolved, another refused for its columns, a third for
\* its chunk level
C28_Witness ==
    \E t, u \in Threads :
        /\ oneAtATime /\ Finished(t) /\ IsDirectorRole(gcall[t].table) /\ gres[t].outcome = "desc"
        /\ Finished(u) /\ IsDirectorRole(gcall[u].table)
        /\ gres[u].outcome = "InvalidTable" /\ gcall[u].dbArg = DefaultDb

\* chunkLevel 1, a non-empty foreign-key column, and a dirTable that
\* resolves to a Director
GoodChild(table) ==
    /\ Catalog[table].chunkLevel = 1
    /\ Catalog[table].dirColName # ""
    /\ IsDirectorRole(Catalog[table].dirTable)
    /\ GoodDirector(Catalog[table].dirTable)

\* C29: with calls made one at a time, a finished get() for a partitioned,
\* non-match table whose dirTable names another table of the store has returned a descriptor exactly when
\* chunkLevel is 1, the named table resolves to a Director and the foreign-key
\* column is non-empty; the descriptor is a Child with that director and that
\* column.  Otherwise it has raised InvalidTable.
C29_ChildResolution ==
    \A t \in Threads :
        (oneAtATime /\ Finished(t) /\ IsChildRole(gcall[t].table)) =>
          LET table == gcall[t].table
          IN  /\ gres[t].outcome = "desc" <=> GoodChild(table)
              /\ ~GoodChild(table) => gres[t].outcome = "InvalidTable"
              /\ gres[t].outcome = "desc" =>
                   LET d == Deref(pool, gres[t].id)
                   IN  /\ d.kind = CHILD /\ d.db = DefaultDb /\ d.table = table
                       /\ d.fk1 = Catalog[table].dirColName
                       /\ DirectorInPool(d.dir1)
                       /\ Deref(pool, d.dir1).table = Catalog[table].dirTable

\* one child was resolved and another refused
C29_Witness ==
    \E t, u \in Threads :
        /\ oneAtATime /\ Finished(t) /\ IsChildRole(gcall[t].table) /\ gres[t].outcome = "desc"
        /\ Finished(u) /\ IsChildRole(gcall[u].table) /\ gres[u].outcome = "InvalidTable"

\* ------------------------------------------------ properties of the cache
\* the chunk level of a table a DbInfo holds
ChunkLevelOf(db, tableName) ==
    IF db.tables[tableName].isPartitioned THEN db.tables[tableName].logicalPart ELSE 0

\* C30: getChunkLevel on a registered database returns the table's chunk
\* level, and returns -1 when the database does not hold the table.
C30_ChunkLevelOrMinusOne ==
    [][\A t \in Threads :
          (/\ cpc[t] = "getChunkLevel" /\ cpc'[t] = Idle
           /\ MapContains(dbs, ccall[t].db))
          => cres'[t] = IF MapContains(dbs[ccall[t].db].tables, ccall[t].table)
                          THEN Returns(ChunkLevelOf(dbs[ccall[t].db], ccall[t].table))
                          ELSE Returns(-1)]_cacheVars

\* the database holds the table
Registered(dbName, tbName) ==
    MapContains(dbs, dbName) /\ MapContains(dbs[dbName].tables, tbName)

\* C31: getChunkLevel on a registered table returns 0, 1 or 2; it returns 0
\* exactly when checkIfTableIsChunked answers false and 2 exactly when
\* checkIfTableIsSubChunked answers true.
C31_ChunkLevelAgreesWithChecks ==
    [][\A t \in Threads :
          (/\ cpc[t] = "getChunkLevel" /\ cpc'[t] = Idle
           /\ Registered(ccall[t].db, ccall[t].table))
          => LET db == dbs[ccall[t].db]
                 chunked == DbInfo_checkIfTableIsChunked(db, ccall[t].table)
                 subChunked == DbInfo_checkIfTableIsSubChunked(db, ccall[t].table)
             IN  /\ cres'[t].kind = "returns"
                 /\ cres'[t].val \in {0, 1, 2}
                 /\ cres'[t].val = 0 <=> chunked = Returns(FALSE)
                 /\ cres'[t].val = 2 <=> subChunked = Returns(TRUE)]_cacheVars

\* thread t's latest call was an addDbInfo* call that has returned
AddDbInfoDone(t) == ccall[t].op = "addDbInfo" /\ cpc[t] = Idle /\ cres[t].kind = "returns"

\* C37: of the addDbInfo* calls made for one database name, whatever their
\* interleaving, no two return STATUS_OK, a call that does not return
\* STATUS_OK returns STATUS_ERR_DB_EXISTS, and the DbInfo stored under the
\* name is the one the STATUS_OK call supplied.
C37_OneAddDbInfoWins ==
    \A t \in Threads :
        AddDbInfoDone(t) =>
          /\ cres[t].val \in {STATUS_OK, STATUS_ERR_DB_EXISTS}
          /\ MapContains(dbs, ccall[t].db)
          /\ cres[t].val = STATUS_OK =>
                /\ dbs[ccall[t].db].isPartitioned = ccall[t].dbInfo.isPartitioned
                /\ dbs[ccall[t].db].nStripes = ccall[t].dbInfo.nStripes
                /\ \A u \in Threads \ {t} :
                      (AddDbInfoDone(u) /\ ccall[u].db = ccall[t].db)
                        => cres[u].val = STATUS_ERR_DB_EXISTS

\* C32: a get() call made with no other call in progress never revisits a
\* table it is already resolving and never exhausts the stack: its recursion
\* ends, whatever director references the store holds.
C32_GetTerminates ==
    oneAtATime =>
      /\ ~poolCrashed
      /\ \A t \in Threads : \A i, j \in DOMAIN stack[t] :
            stack[t][i].table = stack[t][j].table => i = j

\* the vector is in TableInfoLt order
Sorted(v) == \A i, j \in DOMAIN v : i < j => ~TableInfoLt(v[j], v[i])

\* C36: with calls made one after the other the pool is sorted by
\* (db, name) in every state, and the binary-search lookup finds a
\* descriptor for (db, name) exactly when the pool holds one, and then
\* returns one with that (db, name).
C36_SortedPool ==
    oneAtATime =>
      /\ Sorted(pool)
      /\ \A table \in TableArgs :
            LET id == PoolGet(pool, DefaultDb, table)
                held == \E i \in DOMAIN pool :
                           pool[i].db = DefaultDb /\ pool[i].table = table
            IN  /\ id # 0 <=> held
                /\ id # 0 => Deref(pool, id).table = table

\* a descriptor was inserted between two older ones
C36_Witness ==
    /\ oneAtATime /\ Len(pool) = 3
    /\ pool[2].id = 3 /\ pool[1].id = 1 /\ pool[3].id = 2

\* -------------------------------------------- properties of generated names
\* C39: two sessions constructed at different timestamps with an empty
\* configured target have different generated target tables.
C39_GeneratedNamesDistinct ==
    \A i, j \in DOMAIN sessions :
        (sessions[i].sec # sessions[j].sec \/ sessions[i].usec # sessions[j].usec)
          => sessions[i].targetTable # sessions[j].targetTable


\* --------------------------------- properties of the configuration-store client
\* the exception type the store's return code stands for
ExceptionFor(rc) ==
    IF rc = "ZNONODE" THEN "CssException_KeyDoesNotExist"
    ELSE IF rc = "ZCONNECTIONLOSS" THEN "CssException_ConnFailure"
    ELSE IF rc = "ZNOAUTH" THEN "CssException_AuthFailure"
    ELSE "CssException_InternalRunTimeError"

\* C38: an operation of the configuration-store client (create, exists, get,
\* getChildren, deleteNode) to which the store returned a failing code ends
\* with the exception that stands for the code (exists of a missing key ends
\* by returning false) and never returns a value normally.
C38_FailureRaises ==
    (zcall.fn # "none" /\ zrc # "ZOK") =>
        IF zcall.fn = "exists" /\ zrc = "ZNONODE"
        THEN zres = Returns(FALSE)
        ELSE zres.kind = "throws" /\ zres.val.type = ExceptionFor(zrc)

\* C26: the merge table name is the one fixed at construction: the target
\* table's name when no fixup is needed, the distinct name target + "_m"
\* when one is; no step changes it.
C26_MergeTableFixed ==
    /\ [](/\ needsFixup => (mergeTable = targetTable \o "_m" /\ mergeTable # targetTable)
          /\ ~needsFixup => mergeTable = targetTable)
    /\ [][mergeTable' = mergeTable /\ targetTable' = targetTable]_vars

\* a fixup session whose merge table the engine has been asked to create
C26_Witness ==
    /\ needsFixup /\ mergeTable # targetTable
    /\ \E i \in Creates : sqlLog[i].table = mergeTable /\ sqlLog[i].state = "ok"

====
